---- MODULE Spec2Model ----
(***************************************************************************)
(* Model of gosaic's mosaic builder (src/gosaic.go, first package text,    *)
(* lines 1-693): the tile corpus (container/list), the per-region          *)
(* TileData match state, Build's region loop with its worker pool, the     *)
(* unbuffered work channel, the WaitGroup join, the uniqueness removal,    *)
(* the tile resolution and the canvas draw.                                *)
(*                                                                         *)
(* Distances are kept as exact fractions [num, den]; the code's float64    *)
(* quotient sum / (nPixels * 0xffff * 3) orders two values of one region   *)
(* exactly as the fractions do (equal denominators, numerators that        *)
(* differ by at least 1 and stay far below 2^53).                          *)
(***************************************************************************)
EXTENDS Integers, Sequences, FiniteSets, Bags, TLC

(* ---------------------------- bounds ----------------------------------- *)
\* largest corpus the loader leaves behind
MaxTiles == 2
\* largest configured worker count
MaxWorkers == 2
\* widest pixel grid handed to a single call of Difference
MaxSide == 2

(* ------------------------- program constants --------------------------- *)
\* 0xffff, the largest 16 bit channel sample
MaxChannel == 65535

(* ------------------------------ pointers ------------------------------- *)
\* *list.Element pointers: 1..n are elements, RootPtr is &l.root
NilPtr == 0 - 1
RootPtr == NilPtr + 1

(* ------------------------------ geometry ------------------------------- *)
\* image.Rect: a well formed rectangle (swaps reversed coordinates)
Rect(x0, y0, x1, y1) ==
  [minx |-> IF x0 > x1 THEN x1 ELSE x0, miny |-> IF y0 > y1 THEN y1 ELSE y0,
   maxx |-> IF x0 > x1 THEN x0 ELSE x1, maxy |-> IF y0 > y1 THEN y0 ELSE y1]

ZR == [minx |-> 0, miny |-> 0, maxx |-> 0, maxy |-> 0]

Dx(r) == r.maxx - r.minx
Dy(r) == r.maxy - r.miny

RectEmpty(r) == r.minx >= r.maxx \/ r.miny >= r.maxy

Max2(a, b) == IF a > b THEN a ELSE b
Abs(x) == IF x < 0 THEN 0 - x ELSE x

\* Go's integer division a / b for b # 0: the quotient is truncated toward zero
Quo(a, b) ==
  LET q == Abs(a) \div Abs(b)
  IN IF (a < 0) = (b < 0) THEN q ELSE 0 - q
Min2(a, b) == IF a < b THEN a ELSE b

\* image.Rectangle.Intersect
Intersect(r, s) ==
  LET t == [minx |-> Max2(r.minx, s.minx), miny |-> Max2(r.miny, s.miny),
            maxx |-> Min2(r.maxx, s.maxx), maxy |-> Min2(r.maxy, s.maxy)]
  IN IF RectEmpty(t) THEN ZR ELSE t

Points(r) == IF RectEmpty(r) THEN {}
             ELSE {<<x, y>> : x \in r.minx..(r.maxx - 1), y \in r.miny..(r.maxy - 1)}

(* ------------------------------- images -------------------------------- *)
\* 8 bit pixels <<r, g, b, a>>: alpha-premultiplied in an *image.RGBA (colour
\* model "RGBA"), not premultiplied in an *image.NRGBA (colour model "NRGBA")
Black == <<0, 0, 0, 255>>
White == <<255, 255, 255, 255>>
Red == <<255, 0, 0, 255>>
Grey == <<128, 128, 128, 255>>
Clear == <<0, 0, 0, 0>>

\* an image: colour model, bounds, pixel store; NilImage is the nil interface
NilImage == [cm |-> "nil", r |-> ZR, at |-> <<>>]

Filled(cm, r, p) == [cm |-> cm, r |-> r, at |-> [pt \in Points(r) |-> p]]

\* (*image.RGBA).SubImage: the part of img inside r, sharing the pixels
SubImage(img, r) ==
  LET s == Intersect(r, img.r)
  IN [cm |-> img.cm, r |-> s, at |-> [pt \in Points(s) |-> img.at[pt]]]

\* At followed by Color.RGBA(): 16 bit alpha-premultiplied samples; color.RGBA
\* widens each byte (c |= c << 8), color.NRGBA widens and then multiplies by
\* the alpha byte and divides by 0xff
At16(img, x, y) ==
  LET p == IF <<x, y>> \in DOMAIN img.at THEN img.at[<<x, y>>] ELSE Clear
  IN IF img.cm = "NRGBA"
     THEN <<(p[1] * 257 * p[4]) \div 255, (p[2] * 257 * p[4]) \div 255,
            (p[3] * 257 * p[4]) \div 255, p[4] * 257>>
     ELSE <<p[1] * 257, p[2] * 257, p[3] * 257, p[4] * 257>>

(* ---------------------------- Difference ------------------------------- *)
\* a difference that keeps its sign
diff_Signed(a, b) == a - b

\* a difference that counts only what the first sample has more
diff_Floor(a, b) == IF a > b THEN a - b ELSE 0

\* lines 119-124
diff(a, b) == IF a > b THEN a - b ELSE b - a

RECURSIVE SumPixels(_, _, _)
SumPixels(img1, img2, offs) ==
  IF offs = {} THEN 0
  ELSE LET o == CHOOSE q \in offs : TRUE
           c1 == At16(img1, o[1] + img1.r.minx, o[2] + img1.r.miny)
           c2 == At16(img2, o[1] + img2.r.minx, o[2] + img2.r.miny)
       IN diff(c1[1], c2[1]) + diff(c1[2], c2[2]) + diff(c1[3], c2[3])
          + SumPixels(img1, img2, offs \ {o})

RECURSIVE GCD(_, _)
GCD(a, b) == IF b = 0 THEN a ELSE GCD(b, a % b)

\* a float64 quotient n / d as an exact fraction in lowest terms (equal floats
\* are equal records); den = 0 is the NaN of 0 / 0
Frac(n, d) == IF d = 0 THEN [num |-> 0, den |-> 0]
              ELSE [num |-> n \div GCD(n, d), den |-> d \div GCD(n, d)]

\* float64 a < b (false when either side is NaN)
Less(a, b) == a.den # 0 /\ b.den # 0 /\ a.num * b.den < b.num * a.den

\* a Difference without the test of the bounds
Difference_NoBoundsCheck(img1, img2) ==
  IF img1.cm # img2.cm THEN [err |-> TRUE, dist |-> Frac(0, 1)]
  ELSE LET offs == {<<x, y>> : x \in 0..(Dx(img1.r) - 1), y \in 0..(Dy(img1.r) - 1)}
           nPixels == Dx(img1.r) * Dy(img1.r)
       IN [err |-> FALSE,
           dist |-> Frac(SumPixels(img1, img2, offs), nPixels * MaxChannel * 3)]

\* lines 277-308
Difference(img1, img2) ==
  IF img1.cm # img2.cm THEN [err |-> TRUE, dist |-> Frac(0, 1)]
  ELSE IF Dx(img1.r) # Dx(img2.r) \/ Dy(img1.r) # Dy(img2.r)
       THEN [err |-> TRUE, dist |-> Frac(0, 1)]
  ELSE LET offs == {<<x, y>> : x \in 0..(Dx(img1.r) - 1), y \in 0..(Dy(img1.r) - 1)}
           nPixels == Dx(img1.r) * Dy(img1.r)
       IN [err |-> FALSE,
           dist |-> Frac(SumPixels(img1, img2, offs), nPixels * MaxChannel * 3)]

(* --------------------------- tiles and corpus -------------------------- *)
\* Tile{}: the zero value
ZeroTile == [Filename |-> "", Tiny |-> NilImage, Average |-> 0]

\* list.Element{}: the zero value; list is "e.list == g.Tiles"
ZeroElem == [next |-> NilPtr, prev |-> NilPtr, list |-> FALSE, Value |-> ZeroTile]

\* list.New() followed by PushBack of every tile of ts
ListOf(ts) ==
  LET n == Len(ts)
  IN [len |-> n,
      el |-> [e \in 0..n |->
                [next |-> IF e = n THEN RootPtr ELSE e + 1,
                 prev |-> IF e = 0 THEN n ELSE e - 1,
                 list |-> e # RootPtr,
                 Value |-> IF e = RootPtr THEN ZeroTile ELSE ts[e]]]]

\* (*List).PushBack: a new element with value v after the last one
PushBack(l, v) ==
  LET n == Cardinality(DOMAIN l.el)
      last == l.el[RootPtr].prev
  IN [len |-> l.len + 1,
      el |-> [e \in DOMAIN l.el \cup {n} |->
                IF e = n THEN [next |-> RootPtr, prev |-> last, list |-> TRUE, Value |-> v]
                ELSE IF e = RootPtr /\ last = RootPtr
                     THEN [l.el[e] EXCEPT !.next = n, !.prev = n]
                ELSE IF e = RootPtr THEN [l.el[e] EXCEPT !.prev = n]
                ELSE IF e = last THEN [l.el[e] EXCEPT !.next = n]
                ELSE l.el[e]]]

\* (*List).Front
Front(l) == IF l.len = 0 THEN NilPtr ELSE l.el[RootPtr].next

\* (*Element).Next
ElemNext(l, e) ==
  LET p == l.el[e].next
  IN IF l.el[e].list /\ p # RootPtr THEN p ELSE NilPtr

\* Remove that unlinks the element and forgets l.len--
Remove_KeepLen(l, e) ==
  IF e.list
  THEN LET a == [l.el EXCEPT ![e.prev].next = e.next]
       IN [len |-> l.len, el |-> [a EXCEPT ![e.next].prev = e.prev]]
  ELSE l

\* Remove that unlinks the first element of the list, whatever e is
Remove_Front(l, e) ==
  IF e.list
  THEN LET f == l.el[l.el[RootPtr].next]
           a == [l.el EXCEPT ![f.prev].next = f.next]
       IN [len |-> l.len - 1, el |-> [a EXCEPT ![f.next].prev = f.prev]]
  ELSE l

\* (*List).Remove on the Element struct e: the list it leaves behind
Remove(l, e) ==
  IF e.list
  THEN LET a == [l.el EXCEPT ![e.prev].next = e.next]
       IN [len |-> l.len - 1, el |-> [a EXCEPT ![e.next].prev = e.prev]]
  ELSE l

\* (*List).Remove on the Element struct e: what it leaves in e itself
Removed(e) ==
  IF e.list THEN [e EXCEPT !.next = NilPtr, !.prev = NilPtr, !.list = FALSE] ELSE e

\* the element pointers a Front/Next traversal visits, in order
RECURSIVE Walk(_, _, _)
Walk(l, e, fuel) ==
  IF e = NilPtr \/ fuel = 0 THEN <<>> ELSE <<e>> \o Walk(l, ElemNext(l, e), fuel - 1)

Traversal(l) == Walk(l, Front(l), Cardinality(DOMAIN l.el))

(* ------------------------------- state --------------------------------- *)
VARIABLES
  config,       \* g.config
  SeedImage,    \* g.SeedImage, the canvas
  Tiles,        \* g.Tiles, the corpus list
  rects,        \* Build's rects: the planned TileData in visiting order
  idx,          \* position of the range loop in rects (0 before the loop)
  pc,           \* Build's position
  spawned,      \* i of the worker start loop
  wg,           \* the WaitGroup counter
  cur,          \* the producer's cursor into the corpus
  closed,       \* regions whose tileDataChan has been closed
  goroutines,   \* the running tile workers (a bag: tileWorker never uses its id)
  gMutex,       \* g.mutex is locked
  tdMutex,      \* regions whose td.Mutex is locked
  Comparisons,  \* g.stats.Comparisons
  diffs,        \* history: the Difference calls made, [region, elem, err]
  handed,       \* history: <<region, element>> pairs sent on the channel, in order
  outcomes,     \* history: what the loop body did for each region visited
  logged,       \* the lines the tile workers have written to the log (a bag)
  written,      \* the output file holds the encoded canvas
  ret,          \* Build's return value
  call          \* a single call of Difference or loadRect: arguments and result

vars == <<call, logged, config, SeedImage, Tiles, rects, idx, pc, spawned, wg, cur, closed,
          goroutines, gMutex, tdMutex, Comparisons, diffs, handed, outcomes, written, ret>>

\* no call of a single function is being looked at
NoCall == [fn |-> "none"]

(* ------------------------- inputs of one build ------------------------- *)
\* thumbnails the loaders can leave in the corpus (CompareSize squared): exact,
\* near and complementary colours, a mean colour taken before the crop
\* (d.jpg), a thumbnail of another size (e.jpg), the Tile{} that buildTile
\* returns with a nil error when its conversion panics, and the *image.NRGBA
\* that the disk loader's PNG decoding gives for a picture with an alpha
\* channel (f.png)
Thumb(p) == Filled("RGBA", Rect(0, 0, config.CompareSize, config.CompareSize), p)

\* the tiles, listed in one order the loader can push them in (PushBack, line 225):
\* winners can sit at the front, in the middle and at the back of the list
Catalog ==
  << [Filename |-> "a.jpg", Tiny |-> Thumb(Black), Average |-> 0],
     [Filename |-> "e.jpg", Tiny |-> Filled("RGBA", Rect(0, 0, 2, 1), Black), Average |-> 0],
     [Filename |-> "b.jpg", Tiny |-> Thumb(Red), Average |-> 20],
     ZeroTile,
     [Filename |-> "d.jpg", Tiny |-> Thumb(Black), Average |-> 100],
     [Filename |-> "c.jpg", Tiny |-> Thumb(White), Average |-> 255],
     [Filename |-> "f.png", Tiny |-> Filled("NRGBA", Rect(0, 0, 1, 1), Black), Average |-> 200] >>

\* what the thumbnailer returns for a region: proxy image and mean colour
Proxies ==
  { [CompareImage |-> Thumb(Black), Average |-> 0],
    [CompareImage |-> Thumb(Red), Average |-> 20] }

\* the largest mean-colour delta two 8 bit images can have (white against black)
MaxDelta == White[1] - Black[1]

CompareDists == {30, 255}

\* master image sizes after scaling, tile edge and comparison size
Canvases == { [W |-> 3, H |-> 1], [W |-> 2, H |-> 1] }
TileSizes == {2}
CompareSizes == {1}

\* the full-resolution picture the tile store holds for a tile identity
StoreColor(filename) ==
  CASE filename = "a.jpg" -> Black
    [] filename = "b.jpg" -> Red
    [] filename = "c.jpg" -> White
    [] OTHER -> <<0, 0, 0, 128>>

\* the edge of the picture the store returns for a tile identity asked for at
\* tile size `size`: loadTileFromDisk thumbnails to size x size, while
\* loadTileFromRedis takes the stored JPEG as it is (lines 359-361); g.jpg is
\* a picture whose stored copy is one pixel larger than the tile size
StoreSides(filename, size) ==
  IF filename = "g.jpg" THEN {size, size + 1} ELSE {size}

\* the corpora a load can leave: the subsequences of s with at most n tiles
RECURSIVE Corpora(_, _)
Corpora(s, n) ==
  IF s = <<>> \/ n = 0 THEN {<<>>}
  ELSE Corpora(Tail(s), n) \cup {<<Head(s)>> \o rest : rest \in Corpora(Tail(s), n - 1)}

(* ------------------------------- New ----------------------------------- *)
\* the state New leaves: the scaled master image and the loaded corpus
\* Build has not started
Fresh ==
  /\ rects = <<>>
  /\ idx = 0
  /\ pc = "start"
  /\ spawned = 0
  /\ wg = 0
  /\ cur = NilPtr
  /\ closed = {}
  /\ goroutines = EmptyBag
  /\ gMutex = FALSE
  /\ tdMutex = {}
  /\ Comparisons = 0
  /\ diffs = {}
  /\ handed = <<>>
  /\ outcomes = <<>>
  /\ logged = EmptyBag
  /\ written = FALSE
  /\ ret = "running"

\* the worker counts of a build: none, one, and the largest number
WorkerCounts == {0, 1, MaxWorkers}

Init ==
  /\ config \in [Workers : WorkerCounts, Unique : BOOLEAN, CompareDist : CompareDists,
                 TileSize : TileSizes, CompareSize : CompareSizes]
  /\ \E c \in Canvases : SeedImage = Filled("RGBA", Rect(0, 0, c.W, c.H), Grey)
  /\ \E ts \in Corpora(Catalog, MaxTiles) : Tiles = ListOf(ts)
  /\ Fresh
  /\ call = NoCall

(* ----------------------------- loadRect -------------------------------- *)
\* a sentinel that no distance can beat
InitialMinDist_Zero == Frac(0, 1)

\* the sentinel best distance 1.0
InitialMinDist == Frac(1, 1)

\* loadRect(x, y) when the thumbnailer answers with proxy
loadRect(x, y, proxy) ==
  LET T == config.TileSize
      rect == Rect(x * T, y * T, (x + 1) * T, (y + 1) * T)
      subImg == SubImage(SeedImage, rect)
  IN IF RectEmpty(subImg.r)
     THEN [err |-> TRUE, td |-> << >>]   \* png.Encode rejects an empty image
     ELSE [err |-> FALSE,
           td |-> << [X |-> x, Y |-> y,
                      Average |-> proxy.Average,
                      CompareImage |-> proxy.CompareImage,
                      MinDist |-> InitialMinDist,
                      Rect |-> Rect(0, 0, config.CompareSize, config.CompareSize),
                      MinTile |-> ZeroTile,
                      MinElem |-> ZeroElem] >>]

(* ------------------------------ Build ---------------------------------- *)
\* a row count without the partial tile at the edge
rows_NoEdge == Quo(Dx(SeedImage.r), config.TileSize)

\* lines 468-469
rows == Quo(Dx(SeedImage.r), config.TileSize) + 1
cols == Quo(Dy(SeedImage.r), config.TileSize) + 1

\* lines 472-473: the number of iterations of the nested loops
Visits == Max2(rows, 0) * Max2(cols, 0)

\* loops that visit the first cell in every iteration
Cell_Origin(i) == <<0, 0>>

\* the (x, y) of the i-th iteration of the nested planning loops
Cell(i) == <<(i - 1) \div cols, (i - 1) % cols>>

RECURSIVE Planned(_, _)
Planned(px, i) ==
  IF i > Visits THEN <<>>
  ELSE loadRect(Cell(i)[1], Cell(i)[2], px[i]).td \o Planned(px, i + 1)

\* a shuffle that repeats one region in every place
Shuffled_Repeat(rs, ord) == [i \in 1..Len(rs) |-> rs[ord[Len(rs)]]]

\* rand.Shuffle: rects in the order ord
Shuffled(rs, ord) == [i \in 1..Len(rs) |-> rs[ord[i]]]

Orders(n) == {ord \in [1..n -> 1..n] : \A i, j \in 1..n : ord[i] = ord[j] => i = j}

\* lines 468-496: plan every grid cell, then shuffle; the division by a
\* zero TileSize at line 468 is a run-time panic that ends the process
Plan ==
  /\ pc = "start"
  /\ IF config.TileSize = 0
     THEN /\ pc' = "crashed"
          /\ UNCHANGED rects
     ELSE /\ \E px \in [1..Visits -> Proxies] :
               LET rs == Planned(px, 1)
               IN \E ord \in Orders(Len(rs)) : rects' = Shuffled(rs, ord)
          /\ pc' = "loop"
  /\ UNCHANGED <<call, logged, config, SeedImage, Tiles, idx, spawned, wg, cur, closed, goroutines,
                 gMutex, tdMutex, Comparisons, diffs, handed, outcomes, written, ret>>

\* a loop that takes the proxy of the next region from the canvas as it is then
NextRegion_Lazy ==
  /\ pc = "loop"
  /\ IF idx < Len(rects)
     THEN /\ idx' = idx + 1
          /\ spawned' = 0
          /\ pc' = "spawn"
          /\ rects' = [rects EXCEPT ![idx + 1].CompareImage =
                         Thumb(SeedImage.at[<<rects[idx + 1].X * config.TileSize,
                                              rects[idx + 1].Y * config.TileSize>>])]
     ELSE /\ pc' = "save"
          /\ UNCHANGED <<idx, spawned, rects>>
  /\ UNCHANGED <<call, logged, config, SeedImage, Tiles, wg, cur, closed, goroutines,
                 gMutex, tdMutex, Comparisons, diffs, handed, outcomes, written, ret>>

\* line 498-502: the range loop takes the next td and makes its channel
NextRegion ==
  /\ pc = "loop"
  /\ IF idx < Len(rects)
     THEN /\ idx' = idx + 1
          /\ spawned' = 0
          /\ pc' = "spawn"
     ELSE /\ pc' = "save"
          /\ UNCHANGED <<idx, spawned>>
  /\ UNCHANGED <<call, logged, config, SeedImage, Tiles, rects, wg, cur, closed, goroutines,
                 gMutex, tdMutex, Comparisons, diffs, handed, outcomes, written, ret>>

\* a goroutine running tileWorker on the channel of region
NewWorker(region) ==
  [region |-> region, pc |-> "recv", elem |-> NilPtr, dist |-> Frac(0, 1)]

\* the workers after w moved on to be v
Moved(w, v) == (goroutines (-) SetToBag({w})) (+) SetToBag({v})

\* lines 504-509: wg.Add(1); go g.tileWorker(...), then cur = g.Tiles.Front()
Spawn ==
  /\ pc = "spawn"
  /\ IF spawned < config.Workers
     THEN /\ wg' = wg + 1
          /\ goroutines' = goroutines (+) SetToBag({NewWorker(idx)})
          /\ spawned' = spawned + 1
          /\ UNCHANGED <<pc, cur>>
     ELSE /\ pc' = "produce"
          /\ cur' = Front(Tiles)
          /\ UNCHANGED <<wg, goroutines, spawned>>
  /\ UNCHANGED <<call, logged, config, SeedImage, Tiles, rects, idx, closed,
                 gMutex, tdMutex, Comparisons, diffs, handed, outcomes, written, ret>>

\* line 525 meeting line 584: the unbuffered send is taken by a worker
\* blocked in its range receive on the same channel
Send(w) ==
  /\ pc = "produce"
  /\ cur # NilPtr
  /\ BagIn(w, goroutines)
  /\ w.pc = "recv"
  /\ w.region = idx
  /\ idx \notin closed
  /\ goroutines' = Moved(w, [w EXCEPT !.pc = "got", !.elem = cur])
  /\ handed' = Append(handed, <<idx, cur>>)
  /\ cur' = ElemNext(Tiles, cur)
  /\ UNCHANGED <<call, logged, config, SeedImage, Tiles, rects, idx, pc, spawned, wg, closed,
                 gMutex, tdMutex, Comparisons, diffs, outcomes, written, ret>>

\* a close that does not wait for the end of the scan
Close_Early ==
  /\ pc = "produce"
  /\ closed' = closed \cup {idx}
  /\ pc' = "wait"
  /\ UNCHANGED <<call, logged, config, SeedImage, Tiles, rects, idx, spawned, wg, cur, goroutines,
                 gMutex, tdMutex, Comparisons, diffs, handed, outcomes, written, ret>>

\* line 528: close(tileDataChan) after the scan
Close ==
  /\ pc = "produce"
  /\ cur = NilPtr
  /\ closed' = closed \cup {idx}
  /\ pc' = "wait"
  /\ UNCHANGED <<call, logged, config, SeedImage, Tiles, rects, idx, spawned, wg, cur, goroutines,
                 gMutex, tdMutex, Comparisons, diffs, handed, outcomes, written, ret>>

\* a join that does not wait for the workers
WaitReturns_NoJoin == TRUE

\* wg.Wait returns
WaitReturns == wg = 0

\* line 529: wg.Wait()
Wait ==
  /\ pc = "wait"
  /\ WaitReturns
  /\ pc' = "assemble"
  /\ UNCHANGED <<call, logged, config, SeedImage, Tiles, rects, idx, spawned, wg, cur, closed,
                 goroutines, gMutex, tdMutex, Comparisons, diffs, handed, outcomes, written, ret>>

(* ---------------------------- tileWorker ------------------------------ *)
\* a prefilter that also rejects a delta equal to CompareDist
PassesPrefilter_Strict(tile, td) == Abs(tile.Average - td.Average) < config.CompareDist

\* a prefilter that rejects nothing
PassesPrefilter_Always(tile, td) == TRUE

\* line 592: the mean-colour prefilter lets the tile through
PassesPrefilter(tile, td) == ~(Abs(tile.Average - td.Average) > config.CompareDist)

\* the comparison of line 612 turned around
IsBetter_Reversed(dist, minDist) == Less(minDist, dist)

\* a comparison that also lets an equal distance replace the best one
IsBetter_OrEqual(dist, minDist) == ~Less(minDist, dist)

\* line 612: the new distance replaces the best one
IsBetter(dist, minDist) == Less(dist, minDist)

\* a nil check that lets every tile through
HasEmptyData_Never(tile) == FALSE

\* line 586: the tile has no thumbnail
HasEmptyData(tile) == tile.Tiny = NilImage

\* the concrete type behind an image.Image is *image.RGBA
IsRGBA(img) == img.cm = "RGBA"

\* lines 587, 602: the lines the worker logs
EmptyLine(tile) == [msg |-> "has empty image data", file |-> tile.Filename]
ErrLine(tile) == [msg |-> "Difference error", file |-> tile.Filename]

\* lines 585-604: load the tile, nil check, prefilter, the two type
\* assertions (a failed one panics, and the panic of a goroutine ends the
\* process with all its goroutines), Difference
Compare(w) ==
  /\ BagIn(w, goroutines)
  /\ w.pc = "got"
  /\ LET td == rects[w.region]
         tile == Tiles.el[w.elem].Value
         d == Difference(SubImage(td.CompareImage, td.Rect), tile.Tiny)
     IN IF HasEmptyData(tile)
        THEN /\ goroutines' = Moved(w, [w EXCEPT !.pc = "recv"])
             /\ logged' = logged (+) SetToBag({EmptyLine(tile)})
             /\ UNCHANGED <<diffs, pc>>
        ELSE IF ~PassesPrefilter(tile, td)
        THEN /\ goroutines' = Moved(w, [w EXCEPT !.pc = "recv"])
             /\ UNCHANGED <<diffs, logged, pc>>
        ELSE IF ~IsRGBA(td.CompareImage) \/ ~IsRGBA(tile.Tiny)
        THEN /\ pc' = "crashed"
             /\ goroutines' = EmptyBag
             /\ UNCHANGED <<diffs, logged>>
        ELSE /\ diffs' = diffs \cup {[region |-> w.region, elem |-> w.elem, err |-> d.err]}
             /\ goroutines' = Moved(w, IF d.err THEN [w EXCEPT !.pc = "recv"]
                                       ELSE [w EXCEPT !.pc = "lockstats", !.dist = d.dist])
             /\ logged' = IF d.err THEN logged (+) SetToBag({ErrLine(tile)}) ELSE logged
             /\ UNCHANGED pc
  /\ UNCHANGED <<call, config, SeedImage, Tiles, rects, idx, spawned, wg, cur, closed,
                 gMutex, tdMutex, Comparisons, handed, outcomes, written, ret>>

\* line 606: g.mutex.Lock()
LockStats(w) ==
  /\ BagIn(w, goroutines)
  /\ w.pc = "lockstats"
  /\ ~gMutex
  /\ gMutex' = TRUE
  /\ goroutines' = Moved(w, [w EXCEPT !.pc = "count"])
  /\ UNCHANGED <<call, logged, config, SeedImage, Tiles, rects, idx, pc, spawned, wg, cur, closed,
                 tdMutex, Comparisons, diffs, handed, outcomes, written, ret>>

\* an unlock after an increment that was lost
CountAndUnlock_Lost(w) ==
  /\ BagIn(w, goroutines)
  /\ w.pc = "count"
  /\ gMutex' = FALSE
  /\ goroutines' = Moved(w, [w EXCEPT !.pc = "lockbest"])
  /\ UNCHANGED <<call, logged, config, SeedImage, Tiles, rects, idx, pc, spawned, wg, cur, closed,
                 tdMutex, Comparisons, diffs, handed, outcomes, written, ret>>

\* lines 607-608: g.stats.Comparisons++; g.mutex.Unlock()
CountAndUnlock(w) ==
  /\ BagIn(w, goroutines)
  /\ w.pc = "count"
  /\ Comparisons' = Comparisons + 1
  /\ gMutex' = FALSE
  /\ goroutines' = Moved(w, [w EXCEPT !.pc = "lockbest"])
  /\ UNCHANGED <<call, logged, config, SeedImage, Tiles, rects, idx, pc, spawned, wg, cur, closed,
                 tdMutex, diffs, handed, outcomes, written, ret>>

\* line 610: td.Mutex.Lock()
LockBest(w) ==
  /\ BagIn(w, goroutines)
  /\ w.pc = "lockbest"
  /\ w.region \notin tdMutex
  /\ tdMutex' = tdMutex \cup {w.region}
  /\ goroutines' = Moved(w, [w EXCEPT !.pc = "update"])
  /\ UNCHANGED <<call, logged, config, SeedImage, Tiles, rects, idx, pc, spawned, wg, cur, closed,
                 gMutex, Comparisons, diffs, handed, outcomes, written, ret>>

\* an update that leaves the best element behind
Better_NoElem(td, dist, elem) ==
  IF IsBetter(dist, td.MinDist)
  THEN [td EXCEPT !.MinDist = dist, !.MinTile = elem.Value]
  ELSE td

\* lines 612-617: the fields of td after the worker's comparison
Better(td, dist, elem) ==
  IF IsBetter(dist, td.MinDist)
  THEN [td EXCEPT !.MinDist = dist, !.MinTile = elem.Value, !.MinElem = elem]
  ELSE td

\* lines 611-618: update the best match, td.Mutex.Unlock()
UpdateAndUnlock(w) ==
  /\ BagIn(w, goroutines)
  /\ w.pc = "update"
  /\ rects' = [rects EXCEPT ![w.region] = Better(@, w.dist, Tiles.el[w.elem])]
  /\ tdMutex' = tdMutex \ {w.region}
  /\ goroutines' = Moved(w, [w EXCEPT !.pc = "recv"])
  /\ UNCHANGED <<call, logged, config, SeedImage, Tiles, idx, pc, spawned, wg, cur, closed,
                 gMutex, Comparisons, diffs, handed, outcomes, written, ret>>

\* lines 584 and 621: the range ends on the closed channel; wg.Done()
Exit(w) ==
  /\ BagIn(w, goroutines)
  /\ w.pc = "recv"
  /\ w.region \in closed
  /\ goroutines' = goroutines (-) SetToBag({w})
  /\ wg' = wg - 1
  /\ UNCHANGED <<call, logged, config, SeedImage, Tiles, rects, idx, pc, spawned, cur, closed,
                 gMutex, tdMutex, Comparisons, diffs, handed, outcomes, written, ret>>

(* ----------------------------- assembling ------------------------------ *)
\* a winner check that never skips
HasWinner_Always(td) == TRUE

\* line 531: the search of td ended with a winner
HasWinner(td) == td.MinTile.Filename # ""

\* a uniqueness policy that leaves the winner in the corpus
AfterUnique_Keep(l, td) == l

\* a policy that removes the winner whether or not Unique is set
AfterUnique_Always(l, td) == Remove(l, td.MinElem)

\* lines 540-546: the corpus after the uniqueness policy was applied to td
AfterUnique(l, td) == IF config.Unique THEN Remove(l, td.MinElem) ELSE l

\* what loadTileFromRedis / loadTileFromDisk can answer for a winner: an
\* error, or the stored picture at the size it has in the store
LoadTileOutcomes(filename, size) ==
  {[err |-> TRUE, Tiny |-> NilImage]} \cup
  { [err |-> FALSE, Tiny |-> Filled("RGBA", Rect(0, 0, n, n), StoreColor(filename))] :
      n \in StoreSides(filename, size) }

\* line 561: the destination rectangle of the draw
DestRect(td) ==
  LET T == config.TileSize
  IN Rect(td.X * T, td.Y * T, (td.X + Dx(td.Rect)) * T, (td.Y + Dy(td.Rect)) * T)

\* image/draw's Over on two premultiplied 8 bit RGBA pixels
\* (dpix * a / m + spix * 0x101) >> 8 with m = 0xffff and a = (m - sa) * 0x101,
\* sa = s[4] * 0x101; dpix * a / m is written with the common factor 257 of
\* a and m cancelled, which leaves the quotient unchanged
OverPixel(d, s) ==
  [i \in 1..4 |-> (((d[i] * 257 * (255 - s[4])) \div 255 + s[i] * 257) \div 256) % 256]

\* draw's clip: r restricted to the bounds of dst and to those of src moved to r.Min
Clip(dst, r, src) ==
  Intersect(Intersect(r, dst.r),
            [minx |-> src.r.minx + r.minx, miny |-> src.r.miny + r.miny,
             maxx |-> src.r.maxx + r.minx, maxy |-> src.r.maxy + r.miny])

\* draw.Draw(dst, r, src, image.ZP, draw.Over): r is clipped to dst and src
Draw(dst, r, src) ==
  LET c == Clip(dst, r, src)
  IN [dst EXCEPT !.at = [pt \in DOMAIN dst.at |->
        IF pt \in Points(c)
        THEN OverPixel(dst.at[pt], src.at[<<pt[1] - r.minx, pt[2] - r.miny>>])
        ELSE dst.at[pt]]]

\* what Build did with region td: the result and the canvas pixels it wrote
Outcome(td, result, wrote) ==
  [region |-> idx, X |-> td.X, Y |-> td.Y, result |-> result,
   Filename |-> td.MinTile.Filename, wrote |-> wrote]

\* lines 531-534: no winner, the region is skipped
SkipNoWinner ==
  /\ pc = "assemble"
  /\ ~HasWinner(rects[idx])
  /\ outcomes' = Append(outcomes, Outcome(rects[idx], "nowinner", {}))
  /\ pc' = "loop"
  /\ UNCHANGED <<call, logged, config, SeedImage, Tiles, rects, idx, spawned, wg, cur, closed,
                 goroutines, gMutex, tdMutex, Comparisons, diffs, handed, written, ret>>

\* a failed resolution that returns the error instead of continuing
ResolveFail_Abort ==
  /\ pc = "assemble"
  /\ rects[idx].MinTile.Filename # ""
  /\ \E res \in LoadTileOutcomes(rects[idx].MinTile.Filename, config.TileSize) : res.err
  /\ Tiles' = AfterUnique(Tiles, rects[idx])
  /\ rects' = [rects EXCEPT ![idx].MinElem = IF config.Unique THEN Removed(@) ELSE @]
  /\ outcomes' = Append(outcomes, Outcome(rects[idx], "resolvefail", {}))
  /\ pc' = "done"
  /\ ret' = "err"
  /\ UNCHANGED <<call, logged, config, SeedImage, idx, spawned, wg, cur, closed,
                 goroutines, gMutex, tdMutex, Comparisons, diffs, handed, written>>

\* lines 536-560: uniqueness removal, then the tile store fails
ResolveFail ==
  /\ pc = "assemble"
  /\ HasWinner(rects[idx])
  /\ \E res \in LoadTileOutcomes(rects[idx].MinTile.Filename, config.TileSize) : res.err
  /\ Tiles' = AfterUnique(Tiles, rects[idx])
  /\ rects' = [rects EXCEPT ![idx].MinElem = IF config.Unique THEN Removed(@) ELSE @]
  /\ outcomes' = Append(outcomes, Outcome(rects[idx], "resolvefail", {}))
  /\ pc' = "loop"
  /\ UNCHANGED <<call, logged, config, SeedImage, idx, spawned, wg, cur, closed,
                 goroutines, gMutex, tdMutex, Comparisons, diffs, handed, written, ret>>

\* lines 536-562: uniqueness removal, resolution, draw into the canvas
Composite ==
  /\ pc = "assemble"
  /\ HasWinner(rects[idx])
  /\ \E res \in LoadTileOutcomes(rects[idx].MinTile.Filename, config.TileSize) :
       /\ ~res.err
       /\ SeedImage' = Draw(SeedImage, DestRect(rects[idx]), res.Tiny)
       /\ outcomes' = Append(outcomes, Outcome(rects[idx], "drawn",
                                  Points(Clip(SeedImage, DestRect(rects[idx]), res.Tiny))))
  /\ Tiles' = AfterUnique(Tiles, rects[idx])
  /\ rects' = [rects EXCEPT ![idx].MinElem = IF config.Unique THEN Removed(@) ELSE @]
  /\ pc' = "loop"
  /\ UNCHANGED <<call, logged, config, idx, spawned, wg, cur, closed,
                 goroutines, gMutex, tdMutex, Comparisons, diffs, handed, written, ret>>

\* a Build that returns nil whatever SaveAsJPEG answers
Save_Swallow ==
  /\ pc = "save"
  /\ \E ok \in BOOLEAN :
       /\ written' = ok
       /\ ret' = "nil"
  /\ pc' = "done"
  /\ UNCHANGED <<call, logged, config, SeedImage, Tiles, rects, idx, spawned, wg, cur, closed,
                 goroutines, gMutex, tdMutex, Comparisons, diffs, handed, outcomes>>

\* lines 571-577: SaveAsJPEG and the return
Save ==
  /\ pc = "save"
  /\ \E ok \in BOOLEAN :
       /\ written' = ok
       /\ ret' = IF ok THEN "nil" ELSE "err"
  /\ pc' = "done"
  /\ UNCHANGED <<call, logged, config, SeedImage, Tiles, rects, idx, spawned, wg, cur, closed,
                 goroutines, gMutex, tdMutex, Comparisons, diffs, handed, outcomes>>

(* --------------------------- specification ----------------------------- *)
WorkerStep(w) ==
  \/ Send(w)
  \/ Compare(w)
  \/ LockStats(w)
  \/ CountAndUnlock(w)
  \/ LockBest(w)
  \/ UpdateAndUnlock(w)
  \/ Exit(w)

Next ==
  \/ Plan
  \/ NextRegion
  \/ Spawn
  \/ Close
  \/ Wait
  \/ SkipNoWinner
  \/ ResolveFail
  \/ Composite
  \/ Save
  \/ \E w \in BagToSet(goroutines) : WorkerStep(w)

Spec == Init /\ [][Next]_vars

(* ------------------- the 2x2 scenario of the spec ---------------------- *)
\* canvas 200x200 with tile size 100 at the scale 1:100, comparison size 1
ScenarioCanvas == [W |-> 2, H |-> 2]
ScenarioTileSizes == {1}

\* the catalog entry of a file
Entry(filename) == Catalog[CHOOSE i \in DOMAIN Catalog : Catalog[i].Filename = filename]

\* a 3-tile corpus whose tile #2 has the black thumbnail, with a mean colour
\* next to the proxies' (a.jpg) or far from it (d.jpg)
ScenarioCorpora ==
  { <<Entry("b.jpg"), Entry("a.jpg"), Entry("c.jpg")>>,
    <<Entry("b.jpg"), Entry("d.jpg"), Entry("c.jpg")>> }

ScenarioInit ==
  /\ config \in [Workers : {1}, Unique : BOOLEAN, CompareDist : CompareDists,
                 TileSize : ScenarioTileSizes, CompareSize : CompareSizes]
  /\ SeedImage = Filled("RGBA", Rect(0, 0, ScenarioCanvas.W, ScenarioCanvas.H), Grey)
  /\ \E ts \in ScenarioCorpora : Tiles = ListOf(ts)
  /\ Fresh
  /\ call = NoCall

Scenario == ScenarioInit /\ [][Next]_vars

(* ------------------ builds with unvalidated sizes ---------------------- *)
\* neither main nor New looks at the sizes: a Build can start with a tile
\* size that is negative or zero, and with a comparison size above one
UncheckedTileSizes == {0 - 1, 0, 1}
WideCompareSizes == {2}
SizesCanvas == [W |-> 2, H |-> 1]

\* a corpus whose pictures the store holds at the tile size (a.jpg, b.jpg)
\* and one pixel larger (g.jpg)
SizesCatalog ==
  << [Filename |-> "g.jpg", Tiny |-> Thumb(Black), Average |-> 0],
     [Filename |-> "a.jpg", Tiny |-> Thumb(Black), Average |-> 0],
     [Filename |-> "b.jpg", Tiny |-> Thumb(Red), Average |-> 20] >>

SizesInit ==
  /\ config \in [Workers : {1}, Unique : BOOLEAN, CompareDist : CompareDists,
                 TileSize : UncheckedTileSizes, CompareSize : WideCompareSizes]
  /\ SeedImage = Filled("RGBA", Rect(0, 0, SizesCanvas.W, SizesCanvas.H), Grey)
  /\ \E ts \in Corpora(SizesCatalog, MaxTiles) : Tiles = ListOf(ts)
  /\ Fresh
  /\ call = NoCall

Sizes == SizesInit /\ [][Next]_vars

(* ----------------------- single calls of functions --------------------- *)
\* a half transparent black pixel
Shade == <<0, 0, 0, 128>>

Palette == {Black, White, Shade}

\* the pixel grids Difference is called with: both in-memory formats, zero to
\* MaxSide pixels wide, at the origin and away from it (a SubImage keeps the
\* coordinates of its parent)
Grids ==
  UNION { { [cm |-> m, r |-> b, at |-> f] : f \in [Points(b) -> Palette] } :
            m \in {"RGBA", "NRGBA"},
            b \in { Rect(o, 0, o + w, 1) : o \in {0, 1}, w \in 0..MaxSide } }

\* tile edges and comparison sizes a configuration can ask for
ProbeSizes == {1, 2, 3}

\* grid cells visited by the planning loops
ProbeCells == {0, 1, 2}

DifferenceCalls ==
  { [fn |-> "Difference", img1 |-> a, img2 |-> b, done |-> FALSE, ret |-> <<>>] :
      a \in Grids, b \in Grids }

loadRectCalls ==
  { [fn |-> "loadRect", x |-> x, y |-> y, proxy |-> p, done |-> FALSE, ret |-> <<>>,
     drawn |-> FALSE, rect |-> ZR] :
      x \in ProbeCells, y \in ProbeCells, p \in Proxies }

\* the keys a scan of the store can return, by what happens to each: loaded,
\* a third field that is not a number, a failing Get, bytes that are no
\* JPEG, and a JPEG whose dimensions make image.NewRGBA panic
KeyKinds == {"ok", "badavg", "getfail", "corrupt", "huge"}
\* the file name and the mean colour in the i-th key of a scan
KeyNames == <<"a.jpg", "b.jpg", "c.jpg", "d.jpg">>
KeyAverages == <<0, 20, 255, 100>>

KeyLists ==
  UNION { [1..n -> KeyKinds] : n \in 0..Min2(MaxTiles, Len(KeyNames)) }

\* lines 188-209: the deferred recover assigns the local err, but the results
\* are unnamed, so after a recovered panic the caller gets Tile{} and nil
buildTile(huge, label, avg) ==
  IF huge
  THEN [tile |-> ZeroTile, err |-> FALSE]
  ELSE [tile |-> [Filename |-> label, Tiny |-> Thumb(StoreColor(label)), Average |-> avg],
        err |-> FALSE]

LoadLine(label) == [msg |-> "load error", file |-> label]

\* lines 146-180: the loop over the keys from position i, on the corpus and
\* the log in g
RECURSIVE loadTilesFromRedis(_, _, _)
loadTilesFromRedis(keys, i, g) ==
  IF i > Len(keys) THEN g
  ELSE LET k == keys[i]
           label == KeyNames[i]
           t == buildTile(k = "huge", label, KeyAverages[i])
       IN IF k \in {"badavg", "getfail", "corrupt"}
          THEN loadTilesFromRedis(keys, i + 1,
                 [g EXCEPT !.logged = @ (+) SetToBag({LoadLine(label)})])
          ELSE IF t.err
          THEN loadTilesFromRedis(keys, i + 1,
                 [g EXCEPT !.logged = @ (+) SetToBag({LoadLine(label)})])
          ELSE loadTilesFromRedis(keys, i + 1,
                 [Tiles |-> PushBack(g.Tiles, t.tile),
                  logged |-> IF k = "huge" THEN g.logged (+) SetToBag({LoadLine(label)})
                             ELSE g.logged])

loadTilesFromRedisCalls ==
  { [fn |-> "loadTilesFromRedis", keys |-> ks, done |-> FALSE, ret |-> <<>>] : ks \in KeyLists }

\* lines 624-693: what New returns. Line 630 declares err; the failed Ping
\* of line 669 returns that err, which is nil there, and not resp.Err().
\* The assertion of line 679 panics on anything but an *image.RGBA.
New(readable, redis, ping, export, kind, load) ==
  IF ~readable THEN [g |-> "nil", err |-> "err", panic |-> FALSE]
  ELSE IF redis /\ ~ping THEN [g |-> "nil", err |-> "nil", panic |-> FALSE]
  ELSE IF ~export THEN [g |-> "nil", err |-> "err", panic |-> FALSE]
  ELSE IF kind # "RGBA" THEN [g |-> "nil", err |-> "nil", panic |-> TRUE]
  ELSE IF ~load THEN [g |-> "nil", err |-> "err", panic |-> FALSE]
  ELSE [g |-> "gosaic", err |-> "nil", panic |-> FALSE]

\* the master image file, config.RedisAddr, the Redis server, the PNG export
\* and the tile loader, as New finds them
NewCalls ==
  [fn : {"New"}, readable : BOOLEAN, redis : BOOLEAN, ping : BOOLEAN, export : BOOLEAN,
   kind : {"RGBA", "NRGBA"}, load : BOOLEAN, done : {FALSE}, ret : {<<>>}, main : {""}]

\* one call on a freshly constructed Gosaic
CallsInit ==
  /\ \/ /\ config \in [Workers : {1}, Unique : {FALSE}, CompareDist : {MaxDelta},
                       TileSize : TileSizes, CompareSize : CompareSizes]
        /\ call \in DifferenceCalls
     \/ /\ config \in [Workers : {1}, Unique : {FALSE}, CompareDist : {MaxDelta},
                       TileSize : ProbeSizes, CompareSize : ProbeSizes]
        /\ call \in loadRectCalls
     \/ /\ config \in [Workers : {1}, Unique : {FALSE}, CompareDist : {MaxDelta},
                       TileSize : TileSizes, CompareSize : CompareSizes]
        /\ call \in loadTilesFromRedisCalls
     \/ /\ config \in [Workers : {1}, Unique : {FALSE}, CompareDist : {MaxDelta},
                       TileSize : TileSizes, CompareSize : CompareSizes]
        /\ call \in NewCalls
  /\ \E c \in Canvases : SeedImage = Filled("RGBA", Rect(0, 0, c.W, c.H), Grey)
  /\ Tiles = ListOf(<<>>)
  /\ Fresh

\* lines 277-308: g.Difference(img1, img2)
DifferenceCall ==
  /\ call.fn = "Difference"
  /\ ~call.done
  /\ call' = [call EXCEPT !.done = TRUE, !.ret = Difference(call.img1, call.img2)]
  /\ UNCHANGED <<logged, config, SeedImage, Tiles, rects, idx, pc, spawned, wg, cur, closed,
                 goroutines, gMutex, tdMutex, Comparisons, diffs, handed, outcomes, written, ret>>

\* lines 416-465: g.loadRect(x, y)
loadRectCall ==
  /\ call.fn = "loadRect"
  /\ ~call.done
  /\ call' = [call EXCEPT !.done = TRUE, !.ret = loadRect(call.x, call.y, call.proxy)]
  /\ UNCHANGED <<logged, config, SeedImage, Tiles, rects, idx, pc, spawned, wg, cur, closed,
                 goroutines, gMutex, tdMutex, Comparisons, diffs, handed, outcomes, written, ret>>

\* line 561: the rectangle Build computes for the td that loadRect returned
DestRectCall ==
  /\ call.fn = "loadRect"
  /\ call.done
  /\ ~call.ret.err
  /\ ~call.drawn
  /\ call' = [call EXCEPT !.drawn = TRUE, !.rect = DestRect(call.ret.td[1])]
  /\ UNCHANGED <<logged, config, SeedImage, Tiles, rects, idx, pc, spawned, wg, cur, closed,
                 goroutines, gMutex, tdMutex, Comparisons, diffs, handed, outcomes, written, ret>>

\* lines 126-186: g.loadTilesFromRedis() as New calls it, on the empty list
loadTilesFromRedisCall ==
  /\ call.fn = "loadTilesFromRedis"
  /\ ~call.done
  /\ LET g == loadTilesFromRedis(call.keys, 1, [Tiles |-> Tiles, logged |-> logged])
     IN /\ Tiles' = g.Tiles
        /\ logged' = g.logged
  /\ call' = [call EXCEPT !.done = TRUE, !.ret = "nil"]
  /\ UNCHANGED <<config, SeedImage, rects, idx, pc, spawned, wg, cur, closed,
                 goroutines, gMutex, tdMutex, Comparisons, diffs, handed, outcomes, written, ret>>

\* lines 624-693: gosaic.New(config)
NewCall ==
  /\ call.fn = "New"
  /\ ~call.done
  /\ call' = [call EXCEPT !.done = TRUE,
                           !.ret = New(call.readable, call.redis, call.ping, call.export,
                                       call.kind, call.load)]
  /\ UNCHANGED <<logged, config, SeedImage, Tiles, rects, idx, pc, spawned, wg, cur, closed,
                 goroutines, gMutex, tdMutex, Comparisons, diffs, handed, outcomes, written, ret>>

\* cmd/gosaic/main.go lines 131-136: log.Fatal on an error, g.Build() otherwise;
\* Build reads g.SeedImage at once, which panics on the nil pointer
mainCall ==
  /\ call.fn = "New"
  /\ call.done
  /\ ~call.ret.panic
  /\ call.main = ""
  /\ call' = [call EXCEPT !.main = IF call.ret.err # "nil" THEN "Fatal"
                                   ELSE IF call.ret.g = "nil" THEN "Build on nil"
                                   ELSE "Build"]
  /\ UNCHANGED <<logged, config, SeedImage, Tiles, rects, idx, pc, spawned, wg, cur, closed,
                 goroutines, gMutex, tdMutex, Comparisons, diffs, handed, outcomes, written, ret>>

CallsNext ==
  \/ DifferenceCall
  \/ loadRectCall
  \/ DestRectCall
  \/ loadTilesFromRedisCall
  \/ NewCall
  \/ mainCall

Calls == CallsInit /\ [][CallsNext]_vars

(* ------------------------- loadTilesFromDisk --------------------------- *)
\* One call of loadTilesFromDisk with its goroutines, kept in `call`:
\*   tilePaths          what loadTileFromDisk answers for each globbed path
\*   next               the path the range loop of line 260 sends next
\*   imgPathChanClosed, tileChanClosed
\*   wg, wg2            the counters of the two WaitGroups
\*   pc                 the caller: send, wait, parked, woken, close, wait2,
\*                      parked2, woken2, returned, crashed
\*   loaders            the goroutines of line 241: new (started, before
\*                      wg.Add), recv, load, send, done
\*   collector          the goroutine of line 222: new, recv, push, done
\* the build state is left alone
Build0 == <<config, SeedImage, rects, idx, pc, spawned, wg, cur, closed, goroutines,
            gMutex, tdMutex, Comparisons, diffs, handed, outcomes, written, ret>>

\* a Wait that returns whatever the counter is
WaitSees_Always(counter) == TRUE

\* (*WaitGroup).Wait returns at once when it reads a zero counter
WaitSees(counter) == counter = 0

\* line 240 starts 50 loaders; the model starts MaxWorkers of them
Loaders == 1..MaxWorkers

PathLists == UNION { [1..n -> {"ok", "fail"}] : n \in 0..Min2(MaxTiles, Len(KeyNames)) }

\* the tile loadTileFromDisk returns for the i-th path
DiskTile(i) ==
  [Filename |-> KeyNames[i], Tiny |-> Thumb(StoreColor(KeyNames[i])), Average |-> KeyAverages[i]]

DiskInit ==
  /\ config \in [Workers : {1}, Unique : {FALSE}, CompareDist : {MaxDelta},
                 TileSize : TileSizes, CompareSize : CompareSizes]
  /\ \E ps \in PathLists :
       call = [fn |-> "loadTilesFromDisk", tilePaths |-> ps, next |-> 1,
               imgPathChanClosed |-> FALSE, tileChanClosed |-> FALSE,
               wg |-> 0, wg2 |-> 0, pc |-> "send",
               loaders |-> [i \in Loaders |-> [pc |-> "new", path |-> 0]],
               collector |-> [pc |-> "new", path |-> 0]]
  /\ SeedImage = Filled("RGBA", Rect(0, 0, SizesCanvas.W, SizesCanvas.H), Grey)
  /\ Tiles = ListOf(<<>>)
  /\ Fresh

Running == call.pc # "crashed"

\* line 242: wg.Add(1) as the first statement of the loader
LoaderStart(i) ==
  /\ Running
  /\ call.loaders[i].pc = "new"
  /\ call' = [call EXCEPT !.loaders[i].pc = "recv", !.wg = @ + 1]
  /\ UNCHANGED <<Tiles, logged>>
  /\ UNCHANGED Build0

\* line 261 meeting line 243: the unbuffered send of a path is taken by a loader
SendPath(i) ==
  /\ call.pc = "send"
  /\ call.next <= Len(call.tilePaths)
  /\ call.loaders[i].pc = "recv"
  /\ call' = [call EXCEPT !.loaders[i] = [pc |-> "load", path |-> call.next],
                           !.next = @ + 1]
  /\ UNCHANGED <<Tiles, logged>>
  /\ UNCHANGED Build0

\* lines 249-253: loadTileFromDisk; a failure is logged and the path dropped
LoadTile(i) ==
  /\ Running
  /\ call.loaders[i].pc = "load"
  /\ IF call.tilePaths[call.loaders[i].path] = "ok"
     THEN /\ call' = [call EXCEPT !.loaders[i].pc = "send"]
          /\ UNCHANGED logged
     ELSE /\ call' = [call EXCEPT !.loaders[i] = [pc |-> "recv", path |-> 0]]
          /\ logged' = logged (+) SetToBag({LoadLine(KeyNames[call.loaders[i].path])})
  /\ UNCHANGED Tiles
  /\ UNCHANGED Build0

\* line 255 meeting line 224: the collector takes the tile; a send on the
\* closed channel panics
SendTile(i) ==
  /\ Running
  /\ call.loaders[i].pc = "send"
  /\ IF call.tileChanClosed
     THEN call' = [call EXCEPT !.pc = "crashed"]
     ELSE /\ call.collector.pc = "recv"
          /\ call' = [call EXCEPT !.collector = [pc |-> "push", path |-> call.loaders[i].path],
                                   !.loaders[i] = [pc |-> "recv", path |-> 0]]
  /\ UNCHANGED <<Tiles, logged>>
  /\ UNCHANGED Build0

\* lines 243 and 257: the range ends on the closed channel; wg.Done() wakes
\* the Wait that is parked when the counter reaches zero
LoaderExit(i) ==
  /\ Running
  /\ call.loaders[i].pc = "recv"
  /\ call.imgPathChanClosed
  /\ call' = [call EXCEPT !.loaders[i].pc = "done", !.wg = @ - 1,
                           !.pc = IF call.pc = "parked" /\ call.wg = 1 THEN "woken" ELSE @]
  /\ UNCHANGED <<Tiles, logged>>
  /\ UNCHANGED Build0

\* line 223: wg2.Add(1) as the first statement of the collector
CollectorStart ==
  /\ Running
  /\ call.collector.pc = "new"
  /\ call' = [call EXCEPT !.collector.pc = "recv", !.wg2 = @ + 1]
  /\ UNCHANGED <<Tiles, logged>>
  /\ UNCHANGED Build0

\* line 225: g.Tiles.PushBack(tile)
PushTile ==
  /\ Running
  /\ call.collector.pc = "push"
  /\ Tiles' = PushBack(Tiles, DiskTile(call.collector.path))
  /\ call' = [call EXCEPT !.collector = [pc |-> "recv", path |-> 0]]
  /\ UNCHANGED logged
  /\ UNCHANGED Build0

\* lines 224 and 227: the range ends on the closed channel; wg2.Done()
CollectorExit ==
  /\ Running
  /\ call.collector.pc = "recv"
  /\ call.tileChanClosed
  /\ call' = [call EXCEPT !.collector.pc = "done", !.wg2 = @ - 1,
                           !.pc = IF call.pc = "parked2" /\ call.wg2 = 1 THEN "woken2" ELSE @]
  /\ UNCHANGED <<Tiles, logged>>
  /\ UNCHANGED Build0

\* line 263: close(imgPathChan) after the last path
ClosePaths ==
  /\ call.pc = "send"
  /\ call.next > Len(call.tilePaths)
  /\ call' = [call EXCEPT !.imgPathChanClosed = TRUE, !.pc = "wait"]
  /\ UNCHANGED <<Tiles, logged>>
  /\ UNCHANGED Build0

\* line 264: wg.Wait() returns on a zero counter, parks on another one, and
\* panics when it wakes up to a counter that a late wg.Add has raised again
\* ("WaitGroup is reused before previous Wait has returned")
WaitLoaders ==
  /\ \/ /\ call.pc = "wait"
        /\ call' = [call EXCEPT !.pc = IF WaitSees(call.wg) THEN "close" ELSE "parked"]
     \/ /\ call.pc = "woken"
        /\ call' = [call EXCEPT !.pc = IF call.wg = 0 THEN "close" ELSE "crashed"]
  /\ UNCHANGED <<Tiles, logged>>
  /\ UNCHANGED Build0

\* line 266: close(tileChan)
CloseTiles ==
  /\ call.pc = "close"
  /\ call' = [call EXCEPT !.tileChanClosed = TRUE, !.pc = "wait2"]
  /\ UNCHANGED <<Tiles, logged>>
  /\ UNCHANGED Build0

\* lines 267-273: wg2.Wait() and the return
WaitCollector ==
  /\ \/ /\ call.pc = "wait2"
        /\ call' = [call EXCEPT !.pc = IF WaitSees(call.wg2) THEN "returned" ELSE "parked2"]
     \/ /\ call.pc = "woken2"
        /\ call' = [call EXCEPT !.pc = IF call.wg2 = 0 THEN "returned" ELSE "crashed"]
  /\ UNCHANGED <<Tiles, logged>>
  /\ UNCHANGED Build0

LoaderStep(i) ==
  \/ LoaderStart(i)
  \/ SendPath(i)
  \/ LoadTile(i)
  \/ SendTile(i)
  \/ LoaderExit(i)

DiskNext ==
  \/ \E i \in Loaders : LoaderStep(i)
  \/ CollectorStart
  \/ PushTile
  \/ CollectorExit
  \/ ClosePaths
  \/ WaitLoaders
  \/ CloseTiles
  \/ WaitCollector

Disk == DiskInit /\ [][DiskNext]_vars

(* ------------------------- cmd/redisimport ----------------------------- *)
\* One run of the importer, kept in `call`:
\*   images      what Import finds for each file of the glob
\*   next        the file the loop of line 90 sends next
\*   Current     the progress counter
\*   closed      fnameChan is closed
\*   wg          the counter of i.wg, which no line of the program changes
\*   pc          Run and main: send, wait, returned, exited
\*   workers     the goroutines of line 87: recv, import, gone
\*   finished    the files whose Import call has returned
\*   stored      the files whose key was set in Redis
ImageLists == UNION { [1..n -> {"ok", "unreadable"}] : n \in 0..Min2(MaxTiles, Len(KeyNames)) }

ImporterInit ==
  /\ config \in [Workers : 1..MaxWorkers, Unique : {FALSE}, CompareDist : {MaxDelta},
                 TileSize : TileSizes, CompareSize : CompareSizes]
  /\ \E im \in ImageLists :
       call = [fn |-> "Run", images |-> im, next |-> 1, Current |-> 0, closed |-> FALSE,
               wg |-> 0, pc |-> "send",
               workers |-> [w \in 1..config.Workers |-> [pc |-> "recv", file |-> 0]],
               finished |-> {}, stored |-> {}]
  /\ SeedImage = Filled("RGBA", Rect(0, 0, SizesCanvas.W, SizesCanvas.H), Grey)
  /\ Tiles = ListOf(<<>>)
  /\ Fresh

\* lines 90-93 meeting line 53: i.Progress(), then the unbuffered send of the
\* file name is taken by a worker
SendFilename(w) ==
  /\ call.pc = "send"
  /\ call.next <= Len(call.images)
  /\ call.workers[w].pc = "recv"
  /\ call' = [call EXCEPT !.workers[w] = [pc |-> "import", file |-> call.next],
                           !.next = @ + 1, !.Current = @ + 1]
  /\ UNCHANGED <<Tiles, logged>>
  /\ UNCHANGED Build0

\* lines 54 and 99-156: i.Import(fn) runs to its end: the key is set for a
\* readable file, an unreadable one is logged
Import(w) ==
  /\ call.pc # "exited"
  /\ call.workers[w].pc = "import"
  /\ LET f == call.workers[w].file
     IN /\ call' = [call EXCEPT !.workers[w] = [pc |-> "recv", file |-> 0],
                                !.finished = @ \cup {f},
                                !.stored = IF call.images[f] = "ok" THEN @ \cup {f} ELSE @]
        /\ logged' = IF call.images[f] = "ok" THEN logged
                     ELSE logged (+) SetToBag({LoadLine(KeyNames[f])})
  /\ UNCHANGED Tiles
  /\ UNCHANGED Build0

\* lines 53 and 56: the range ends on the closed channel
WorkerReturn(w) ==
  /\ call.pc # "exited"
  /\ call.workers[w].pc = "recv"
  /\ call.closed
  /\ call' = [call EXCEPT !.workers[w].pc = "gone"]
  /\ UNCHANGED <<Tiles, logged>>
  /\ UNCHANGED Build0

\* line 94: close(fnameChan) after the last file name
CloseFilenames ==
  /\ call.pc = "send"
  /\ call.next > Len(call.images)
  /\ call' = [call EXCEPT !.closed = TRUE, !.pc = "wait"]
  /\ UNCHANGED <<Tiles, logged>>
  /\ UNCHANGED Build0

\* lines 95-96: i.wg.Wait() and return nil
RunReturns ==
  /\ call.pc = "wait"
  /\ WaitSees(call.wg)
  /\ call' = [call EXCEPT !.pc = "returned"]
  /\ UNCHANGED <<Tiles, logged>>
  /\ UNCHANGED Build0

\* lines 173-178: main prints the load time and returns, which ends the
\* process and its workers
mainReturns ==
  /\ call.pc = "returned"
  /\ call' = [call EXCEPT !.pc = "exited"]
  /\ UNCHANGED <<Tiles, logged>>
  /\ UNCHANGED Build0

ImporterNext ==
  \/ \E w \in DOMAIN call.workers : SendFilename(w)
  \/ \E w \in DOMAIN call.workers : Import(w)
  \/ \E w \in DOMAIN call.workers : WorkerReturn(w)
  \/ CloseFilenames
  \/ RunReturns
  \/ mainReturns

Importer == ImporterInit /\ [][ImporterNext]_vars

(* ------------------ Build with inline workers (lines 942-1090) --------- *)
\* The search of one region in the Build whose workers are closures over the
\* locals of the loop body, kept in `call`:
\*   compareImg, avg     the proxy of the region (lines 990-1000)
\*   minDist, minTile, minTileElem, comparisons    the captured locals
\*   tileMutex           the worker that holds it, 0 when free
\*   cur, chanClosed     the producer's cursor (line 1055) and close(tileChan)
\*   tileWG              the counter, raised before each go statement
\*   pc                  the loop body: produce, wait, joined
\*   workers             recv, got, check, lock, write, gone; the element
\*                       and the distance each one holds
\*   computed            the distances Difference has returned
InlineCatalog ==
  << [Filename |-> "a.jpg", Tiny |-> Thumb(Black), Average |-> 0],
     [Filename |-> "b.jpg", Tiny |-> Thumb(Red), Average |-> 20],
     [Filename |-> "e.jpg", Tiny |-> Filled("RGBA", Rect(0, 0, 2, 1), Black), Average |-> 0],
     [Filename |-> "d.jpg", Tiny |-> Thumb(Black), Average |-> 100] >>

\* line 1011 starts 100 closures; the model starts MaxWorkers of them
InlineInit ==
  /\ config \in [Workers : {MaxWorkers}, Unique : {FALSE}, CompareDist : CompareDists,
                 TileSize : TileSizes, CompareSize : CompareSizes]
  /\ SeedImage = Filled("RGBA", Rect(0, 0, SizesCanvas.W, SizesCanvas.H), Grey)
  /\ \E ts \in Corpora(InlineCatalog, MaxTiles) : Tiles = ListOf(ts)
  /\ \E p \in Proxies :
       call = [fn |-> "search", compareImg |-> p.CompareImage, avg |-> p.Average,
               minDist |-> InitialMinDist, minTile |-> ZeroTile, minTileElem |-> NilPtr,
               comparisons |-> 0, tileMutex |-> 0, cur |-> Front(Tiles),
               chanClosed |-> FALSE, tileWG |-> MaxWorkers, pc |-> "produce",
               workers |-> [w \in 1..MaxWorkers |-> [pc |-> "recv", elem |-> NilPtr,
                                                     dist |-> InitialMinDist]],
               computed |-> {}]
  /\ Fresh

\* line 1056 meeting line 1014: the unbuffered send of an element is taken
Receive(w) ==
  /\ call.pc = "produce"
  /\ call.cur # NilPtr
  /\ call.workers[w].pc = "recv"
  /\ call' = [call EXCEPT !.workers[w].pc = "got", !.workers[w].elem = call.cur,
                           !.cur = ElemNext(Tiles, call.cur)]
  /\ UNCHANGED <<Tiles, logged>>
  /\ UNCHANGED Build0

\* lines 1016-1033: the prefilter and g.Difference
Measure(w) ==
  /\ call.workers[w].pc = "got"
  /\ LET tile == Tiles.el[call.workers[w].elem].Value
         tileRect == Rect(0, 0, config.CompareSize, config.CompareSize)
         d == Difference(SubImage(call.compareImg, tileRect), tile.Tiny)
     IN IF ~PassesPrefilter(tile, [Average |-> call.avg])
        THEN /\ call' = [call EXCEPT !.workers[w].pc = "recv"]
             /\ UNCHANGED logged
        ELSE IF d.err
        THEN /\ call' = [call EXCEPT !.workers[w].pc = "recv"]
             /\ logged' = logged (+) SetToBag({ErrLine(tile)})
        ELSE /\ call' = [call EXCEPT !.workers[w].pc = "check", !.workers[w].dist = d.dist,
                                     !.computed = @ \cup {[elem |-> call.workers[w].elem,
                                                            dist |-> d.dist]}]
             /\ UNCHANGED logged
  /\ UNCHANGED Tiles
  /\ UNCHANGED Build0

\* line 1035: `if dist < minDist`, read before the mutex is taken
CheckBest(w) ==
  /\ call.workers[w].pc = "check"
  /\ call' = [call EXCEPT !.workers[w].pc =
                 IF IsBetter(call.workers[w].dist, call.minDist) THEN "lock" ELSE "recv"]
  /\ UNCHANGED <<Tiles, logged>>
  /\ UNCHANGED Build0

\* line 1036: tileMutex.Lock()
LockTile(w) ==
  /\ call.workers[w].pc = "lock"
  /\ call.tileMutex = 0
  /\ call' = [call EXCEPT !.workers[w].pc = "write", !.tileMutex = w]
  /\ UNCHANGED <<Tiles, logged>>
  /\ UNCHANGED Build0

\* lines 1037-1042: the three assignments, the counter and the Unlock
Record(w) ==
  /\ call.workers[w].pc = "write"
  /\ call' = [call EXCEPT !.minTile = Tiles.el[call.workers[w].elem].Value,
                           !.minDist = call.workers[w].dist,
                           !.minTileElem = call.workers[w].elem,
                           !.comparisons = @ + 1,
                           !.tileMutex = 0,
                           !.workers[w].pc = "recv"]
  /\ UNCHANGED <<Tiles, logged>>
  /\ UNCHANGED Build0

\* lines 1014 and 1045: the range ends on the closed channel; tileWG.Done()
Leave(w) ==
  /\ call.workers[w].pc = "recv"
  /\ call.chanClosed
  /\ call' = [call EXCEPT !.workers[w].pc = "gone", !.tileWG = @ - 1]
  /\ UNCHANGED <<Tiles, logged>>
  /\ UNCHANGED Build0

\* line 1058: close(tileChan) after the last element
CloseTileChan ==
  /\ call.pc = "produce"
  /\ call.cur = NilPtr
  /\ call' = [call EXCEPT !.chanClosed = TRUE, !.pc = "wait"]
  /\ UNCHANGED <<Tiles, logged>>
  /\ UNCHANGED Build0

\* line 1060: tileWG.Wait()
Join ==
  /\ call.pc = "wait"
  /\ WaitSees(call.tileWG)
  /\ call' = [call EXCEPT !.pc = "joined"]
  /\ UNCHANGED <<Tiles, logged>>
  /\ UNCHANGED Build0

InlineNext ==
  \/ \E w \in DOMAIN call.workers : Receive(w)
  \/ \E w \in DOMAIN call.workers : Measure(w)
  \/ \E w \in DOMAIN call.workers : CheckBest(w)
  \/ \E w \in DOMAIN call.workers : LockTile(w)
  \/ \E w \in DOMAIN call.workers : Record(w)
  \/ \E w \in DOMAIN call.workers : Leave(w)
  \/ CloseTileChan
  \/ Join

Inline == InlineInit /\ [][InlineNext]_vars

(* ------------------ src/unnamed/part_000: Build and tileWorker --------- *)
\* The search of one region in part_000, kept in `call`:
\*   compareImg, avg     the proxy of the region
\*   minDist             Build's local, written through td.MinDist
\*   gMutex              the worker that holds g.mutex, 0 when free
\*   tileMutex           Build's tileMutex (td.Mutex) is locked
\*   Comparisons         g.stats.Comparisons
\*   cur, chanClosed     the cursor of line 474 and close(g.tileDataChan)
\*   tileWG              the counter, raised before each go statement
\*   pc                  Build: produce, wait, joined, crashed
\*   workers             recv, got, lock, update, unlock, gone
\*   badUnlock           an Unlock found its mutex unlocked
\* line 469 starts 50 workers; the model starts MaxWorkers of them
Part000Init ==
  /\ config \in [Workers : {MaxWorkers}, Unique : {FALSE}, CompareDist : CompareDists,
                 TileSize : TileSizes, CompareSize : CompareSizes]
  /\ SeedImage = Filled("RGBA", Rect(0, 0, SizesCanvas.W, SizesCanvas.H), Grey)
  /\ \E ts \in Corpora(Catalog, MaxTiles) : Tiles = ListOf(ts)
  /\ \E p \in Proxies :
       call = [fn |-> "part_000", compareImg |-> p.CompareImage, avg |-> p.Average,
               minDist |-> InitialMinDist, gMutex |-> 0, tileMutex |-> FALSE,
               Comparisons |-> 0, cur |-> Front(Tiles), chanClosed |-> FALSE,
               tileWG |-> MaxWorkers, pc |-> "produce",
               workers |-> [w \in 1..MaxWorkers |-> [pc |-> "recv", elem |-> NilPtr,
                                                     dist |-> InitialMinDist]],
               badUnlock |-> FALSE]
  /\ Fresh

\* lines 474-487 meeting line 540: the TileData of an element is taken
TakeTileData(w) ==
  /\ call.pc = "produce"
  /\ call.cur # NilPtr
  /\ call.workers[w].pc = "recv"
  /\ call' = [call EXCEPT !.workers[w].pc = "got", !.workers[w].elem = call.cur,
                           !.cur = ElemNext(Tiles, call.cur)]
  /\ UNCHANGED <<Tiles, logged>>
  /\ UNCHANGED Build0

\* lines 541-560: the nil check, the prefilter, the two type assertions and
\* g.Difference
Examine(w) ==
  /\ call.pc # "crashed"
  /\ call.workers[w].pc = "got"
  /\ LET tile == Tiles.el[call.workers[w].elem].Value
         d == Difference(SubImage(call.compareImg,
                                  Rect(0, 0, config.CompareSize, config.CompareSize)),
                         tile.Tiny)
     IN IF HasEmptyData(tile)
        THEN /\ call' = [call EXCEPT !.workers[w].pc = "recv"]
             /\ logged' = logged (+) SetToBag({EmptyLine(tile)})
        ELSE IF ~PassesPrefilter(tile, [Average |-> call.avg])
        THEN /\ call' = [call EXCEPT !.workers[w].pc = "recv"]
             /\ UNCHANGED logged
        ELSE IF ~IsRGBA(call.compareImg) \/ ~IsRGBA(tile.Tiny)
        THEN /\ call' = [call EXCEPT !.pc = "crashed"]
             /\ UNCHANGED logged
        ELSE IF d.err
        THEN /\ call' = [call EXCEPT !.workers[w].pc = "recv"]
             /\ logged' = logged (+) SetToBag({ErrLine(tile)})
        ELSE /\ call' = [call EXCEPT !.workers[w].pc = "lock", !.workers[w].dist = d.dist]
             /\ UNCHANGED logged
  /\ UNCHANGED Tiles
  /\ UNCHANGED Build0

\* line 562: g.mutex.Lock()
LockG(w) ==
  /\ call.pc # "crashed"
  /\ call.workers[w].pc = "lock"
  /\ call.gMutex = 0
  /\ call' = [call EXCEPT !.workers[w].pc = "update", !.gMutex = w]
  /\ UNCHANGED <<Tiles, logged>>
  /\ UNCHANGED Build0

\* lines 563-570: the counter and the comparison; td is the worker's copy of
\* the TileData, so only *td.MinDist reaches Build
CountAndCompare(w) ==
  /\ call.pc # "crashed"
  /\ call.workers[w].pc = "update"
  /\ call' = [call EXCEPT !.Comparisons = @ + 1,
                           !.minDist = IF IsBetter(call.workers[w].dist, @)
                                       THEN call.workers[w].dist ELSE @,
                           !.workers[w].pc = "unlock"]
  /\ UNCHANGED <<Tiles, logged>>
  /\ UNCHANGED Build0

\* line 571: td.Mutex.Unlock(); the runtime ends the program with "sync:
\* unlock of unlocked mutex" when the mutex is not locked
UnlockTd(w) ==
  /\ call.pc # "crashed"
  /\ call.workers[w].pc = "unlock"
  /\ IF call.tileMutex
     THEN call' = [call EXCEPT !.tileMutex = FALSE, !.workers[w].pc = "recv"]
     ELSE call' = [call EXCEPT !.badUnlock = TRUE, !.pc = "crashed"]
  /\ UNCHANGED <<Tiles, logged>>
  /\ UNCHANGED Build0

\* lines 540 and 573: the range ends on the closed channel; g.tileWG.Done()
WorkerDone(w) ==
  /\ call.pc # "crashed"
  /\ call.workers[w].pc = "recv"
  /\ call.chanClosed
  /\ call' = [call EXCEPT !.workers[w].pc = "gone", !.tileWG = @ - 1]
  /\ UNCHANGED <<Tiles, logged>>
  /\ UNCHANGED Build0

\* line 488: close(g.tileDataChan) after the last element
CloseTileDataChan ==
  /\ call.pc = "produce"
  /\ call.cur = NilPtr
  /\ call' = [call EXCEPT !.chanClosed = TRUE, !.pc = "wait"]
  /\ UNCHANGED <<Tiles, logged>>
  /\ UNCHANGED Build0

\* line 490: g.tileWG.Wait()
JoinWorkers ==
  /\ call.pc = "wait"
  /\ WaitSees(call.tileWG)
  /\ call' = [call EXCEPT !.pc = "joined"]
  /\ UNCHANGED <<Tiles, logged>>
  /\ UNCHANGED Build0

Part000Next ==
  \/ \E w \in DOMAIN call.workers : TakeTileData(w)
  \/ \E w \in DOMAIN call.workers : Examine(w)
  \/ \E w \in DOMAIN call.workers : LockG(w)
  \/ \E w \in DOMAIN call.workers : CountAndCompare(w)
  \/ \E w \in DOMAIN call.workers : UnlockTd(w)
  \/ \E w \in DOMAIN call.workers : WorkerDone(w)
  \/ CloseTileDataChan
  \/ JoinWorkers

Part000 == Part000Init /\ [][Part000Next]_vars

(* ------------------------- vocabulary of the claims -------------------- *)
Range(f) == {f[i] : i \in DOMAIN f}

\* the corpus elements a scan of g.Tiles meets now
Corpus == Range(Traversal(Tiles))

TileOf(e) == Tiles.el[e].Value

\* the number of tiles New loaded (elements are never freed in the model)
LoadedTiles == Cardinality(DOMAIN Tiles.el) - 1

\* the worker pool of the current region has joined and its td is being read
AtJoin == pc = "assemble"

\* |tile.Average - region.Average| <= CompareDist
WithinThreshold(e, td) ==
  LET delta == TileOf(e).Average - td.Average
  IN delta <= config.CompareDist /\ 0 - delta <= config.CompareDist

\* the proxy the workers compare against
ProxyOf(td) == SubImage(td.CompareImage, td.Rect)

\* corpus tiles with a thumbnail that pass the prefilter of td and can be compared
Candidates(td) ==
  {e \in Corpus : /\ TileOf(e).Tiny # NilImage
                  /\ WithinThreshold(e, td)
                  /\ ~Difference(ProxyOf(td), TileOf(e).Tiny).err}

DistOf(e, td) == Difference(ProxyOf(td), TileOf(e).Tiny).dist

\* a <= b on distances
Leq(a, b) == a.num * b.den <= b.num * a.den

Winners == {i \in DOMAIN outcomes : outcomes[i].result # "nowinner"}
DrawnAt == {i \in DOMAIN outcomes : outcomes[i].result = "drawn"}

(* ------------------------------- claims -------------------------------- *)
\* C1: once the worker pool of a region has joined, Build has a winner if and
\* only if some corpus tile passes the region's mean-colour prefilter, and the
\* winner's distance is the minimum over the tiles that pass.
C1_WinnerIffCandidate ==
  AtJoin =>
    LET td == rects[idx]
    IN /\ (td.MinTile.Filename # "") <=> (Candidates(td) # {})
       /\ td.MinTile.Filename # "" =>
            /\ \A e \in Candidates(td) : Leq(td.MinDist, DistOf(e, td))
            /\ \E e \in Candidates(td) : td.MinDist = DistOf(e, td) /\ td.MinTile = TileOf(e)

\* C2: with Unique, no tile identity is composited into two regions; a tile
\* that won a region has left the corpus and wins no later region.
C2_UniqueTiles ==
  config.Unique =>
    /\ \A i, j \in Winners : outcomes[i].Filename = outcomes[j].Filename => i = j
    /\ \A i \in Winners : \A e \in Corpus : TileOf(e).Filename # outcomes[i].Filename
    /\ \A i \in Winners : idx > outcomes[i].region =>
         rects[idx].MinTile.Filename # outcomes[i].Filename

C2_Witness ==
  /\ config.Unique
  /\ Cardinality(DrawnAt) >= 2
  /\ Tiles.len = 0

\* C3 as claimed: with Unique, the corpus has shrunk by exactly the number of
\* regions that were composited.
C3_ShrinksPerComposite ==
  config.Unique => LoadedTiles - Tiles.len = Cardinality(DrawnAt)

\* C3 amended: with Unique, the corpus has shrunk by exactly the number of
\* regions whose search ended with a winner, composited or not; without
\* Unique it keeps its length; the length always matches a scan.
C3_ShrinksPerWinner ==
  /\ config.Unique => LoadedTiles - Tiles.len = Cardinality(Winners)
  /\ ~config.Unique => Tiles.len = LoadedTiles
  /\ Tiles.len = Cardinality(Corpus)

C3_Witness ==
  /\ config.Unique
  /\ \E i, j \in Winners : outcomes[i].result = "resolvefail" /\ outcomes[j].result = "drawn"
  /\ Tiles.len = LoadedTiles - 2

\* C4: all running workers belong to the region being searched; the best
\* match is read, the corpus changed and the canvas drawn only while no
\* worker is running.
C4_RegionsSequential ==
  /\ [](\A w \in BagToSet(goroutines) : w.region = idx)
  /\ [](pc \in {"start", "loop", "assemble", "save", "done", "crashed"} => goroutines = EmptyBag)
  /\ [][(Tiles' # Tiles \/ SeedImage' # SeedImage) => (goroutines = EmptyBag /\ goroutines' = EmptyBag)]_vars

C4_Witness ==
  /\ pc = "assemble"
  /\ idx = 2
  /\ config.Workers = 2
  /\ \E d \in diffs : d.region = 2
  /\ Tiles.len < LoadedTiles

\* some goroutine of the program can take a step (the enabling conditions of
\* Build's and the workers' steps)
BuildCanStep ==
  \/ pc \in {"start", "loop", "spawn", "assemble", "save"}
  \/ pc = "produce" /\ cur = NilPtr
  \/ pc = "produce" /\ idx \notin closed
       /\ \E w \in BagToSet(goroutines) : w.pc = "recv" /\ w.region = idx
  \/ pc = "wait" /\ wg = 0

WorkerCanStep(w) ==
  \/ w.pc \in {"got", "count", "update"}
  \/ w.pc = "lockstats" /\ ~gMutex
  \/ w.pc = "lockbest" /\ w.region \notin tdMutex
  \/ w.pc = "recv" /\ w.region \in closed

CanStep == BuildCanStep \/ \E w \in BagToSet(goroutines) : WorkerCanStep(w)

\* C5: Build always terminates, for every corpus size and every configured
\* worker count. Every run of Build is finite (each step advances a loop or
\* a worker), so it terminates exactly when it is never left without a step
\* before its return (or before a panic ends the process): the producer can
\* hand over, the workers can exit, the join can return.
C5_BuildTerminates == pc \notin {"done", "crashed"} => CanStep

\* C6 as claimed: a corpus tile whose thumbnail is pixel-identical to the
\* region proxy makes the search end with a winner at distance 0.
C6_IdenticalTileWins ==
  AtJoin =>
    LET td == rects[idx]
    IN (\E e \in Corpus : TileOf(e).Tiny = ProxyOf(td)) =>
         (td.MinTile.Filename # "" /\ td.MinDist = [num |-> 0, den |-> 1])

\* C6 amended: a corpus tile whose thumbnail is pixel-identical to the region
\* proxy and whose mean colour is within CompareDist of the region's makes
\* the search end with a winner at distance 0.
C6_IdenticalTileInThresholdWins ==
  AtJoin =>
    LET td == rects[idx]
    IN (\E e \in Corpus : TileOf(e).Tiny = ProxyOf(td) /\ WithinThreshold(e, td)) =>
         (td.MinTile.Filename # "" /\ td.MinDist = [num |-> 0, den |-> 1]
          /\ td.MinTile.Tiny = ProxyOf(td))

C6_Witness ==
  /\ AtJoin
  /\ rects[idx].MinDist = [num |-> 0, den |-> 1]
  /\ \E e \in Corpus : TileOf(e).Tiny = ProxyOf(rects[idx]) /\ WithinThreshold(e, rects[idx])
  /\ \E e \in Corpus : TileOf(e).Tiny # ProxyOf(rects[idx]) /\ TileOf(e).Tiny # NilImage
                       /\ WithinThreshold(e, rects[idx])

\* the Difference calls of region r: the elements, and those that got a distance
Called(r) == {d.elem : d \in {c \in diffs : c.region = r}}

\* C7: every corpus tile that has a thumbnail and whose mean-colour delta is
\* within CompareDist has reached Difference when the region's pool has joined.
C7_PrefilterKeepsNear ==
  AtJoin =>
    \A e \in Corpus :
      (TileOf(e).Tiny # NilImage /\ WithinThreshold(e, rects[idx])) => e \in Called(idx)

C7_Witness ==
  /\ AtJoin
  /\ \E e \in Called(idx) :
       LET delta == TileOf(e).Average - rects[idx].Average
       IN delta = config.CompareDist \/ 0 - delta = config.CompareDist
  /\ \E e \in Corpus : e \notin Called(idx)

\* C8 as claimed: with CompareDist below the largest possible delta, the
\* tiles that reach Difference are a strict subset of the corpus.
C8_PrefilterStrict ==
  (AtJoin /\ config.CompareDist < MaxDelta) =>
    (Called(idx) \subseteq Corpus /\ Called(idx) # Corpus)

\* C8 amended: the tiles that reach Difference are corpus tiles with a
\* thumbnail whose delta is within CompareDist, and no others; at the join
\* they are a strict subset of the corpus exactly when some corpus tile has
\* no thumbnail or a delta above CompareDist.
C8_PrefilterSubset ==
  /\ \A d \in diffs :
       /\ TileOf(d.elem).Tiny # NilImage
       /\ WithinThreshold(d.elem, rects[d.region])
       /\ (d.region = idx /\ pc \in {"produce", "wait", "assemble"}) => d.elem \in Corpus
  /\ AtJoin =>
       ((Called(idx) # Corpus) <=>
          \E e \in Corpus : TileOf(e).Tiny = NilImage \/ ~WithinThreshold(e, rects[idx]))

C8_Witness ==
  /\ AtJoin
  /\ config.CompareDist < MaxDelta
  /\ Called(idx) # {}
  /\ \E e \in Corpus : TileOf(e).Tiny # NilImage /\ ~WithinThreshold(e, rects[idx])

\* a region was left without winner / with a failed resolution earlier on
SomeOutcome(result) == \E i \in DOMAIN outcomes : outcomes[i].result = result

\* C9: a region whose search ends with no winner is skipped: the corpus and
\* the canvas keep their values, the loop goes on with the next region, and
\* from then on Build is never blocked and returns only after every planned
\* region was visited and the save was attempted (a panic of a worker in a
\* later region ends the process instead).
C9_NoWinnerSkips ==
  /\ [][(pc = "assemble" /\ rects[idx].MinTile.Filename = "") =>
          (Tiles' = Tiles /\ SeedImage' = SeedImage /\ pc' = "loop" /\ idx' = idx)]_vars
  /\ [](SomeOutcome("nowinner") =>
          /\ pc \notin {"done", "crashed"} => CanStep
          /\ pc = "done" => (Len(outcomes) = Len(rects) /\ ret \in {"nil", "err"}))

C9_Witness ==
  /\ pc = "done"
  /\ written
  /\ Len(outcomes) = 2
  /\ outcomes[1].result = "nowinner"
  /\ outcomes[2].result = "drawn"

Mismatched(img1, img2) ==
  img1.cm # img2.cm \/ Dx(img1.r) # Dx(img2.r) \/ Dy(img1.r) # Dy(img2.r)

\* C11 as claimed: a tile whose thumbnail differs from the region proxy in
\* dimensions or colour model is skipped for that region only: it is never
\* recorded as best, the other tiles are still evaluated, and neither the
\* worker nor the build is aborted.
C11_MismatchSkipped ==
  /\ pc # "crashed"
  /\ \A i \in DOMAIN rects :
       HasWinner(rects[i]) => ~Mismatched(ProxyOf(rects[i]), rects[i].MinTile.Tiny)
  /\ AtJoin =>
       \A e \in Corpus :
         (TileOf(e).Tiny # NilImage /\ WithinThreshold(e, rects[idx])
          /\ ~Mismatched(ProxyOf(rects[idx]), TileOf(e).Tiny)) => e \in Called(idx)

\* the canvas New built
MasterImage == Filled("RGBA", SeedImage.r, Grey)

\* C17: with an empty corpus every region ends with no winner, every planned
\* region is visited, and the canvas at the end of Build is pixel-identical
\* to the scaled master image it started from.
C17_EmptyCorpus ==
  LoadedTiles = 0 =>
    /\ \A i \in DOMAIN outcomes : outcomes[i].result = "nowinner"
    /\ \A i \in DOMAIN rects : rects[i].MinTile = ZeroTile
    /\ SeedImage = MasterImage
    /\ pc # "crashed"
    /\ pc \in {"save", "done"} => Len(outcomes) = Len(rects)

C17_Witness ==
  /\ LoadedTiles = 0
  /\ pc = "done"
  /\ written
  /\ Len(outcomes) = 2
  /\ config.Workers = MaxWorkers

\* corpus entries without thumbnail data
Missing == {e \in Corpus : TileOf(e).Tiny = NilImage}

\* the "has empty image data" lines in the log
EmptyLines ==
  LET ls == {l \in BagToSet(logged) : l.msg = EmptyLine(ZeroTile).msg}
      RECURSIVE Count(_)
      Count(S) == IF S = {} THEN 0
                  ELSE LET l == CHOOSE m \in S : TRUE IN CopiesIn(l, logged) + Count(S \ {l})
  IN Count(ls)

\* C18 as claimed: a corpus entry with no thumbnail data is skipped without
\* crashing, is logged once, and every other tile is still evaluated.
C18_LoggedOnce ==
  /\ EmptyLines <= Cardinality(Missing)
  /\ pc = "crashed" => \E e \in Corpus \ Missing : TileOf(e).Tiny.cm # "RGBA"
  /\ AtJoin =>
       \A e \in Corpus \ Missing : WithinThreshold(e, rects[idx]) => e \in Called(idx)

\* C18 amended: a corpus entry with no thumbnail data is skipped by the
\* worker that receives it: the step logs one line and changes neither the
\* match state nor the number of workers; the entry is logged once for every
\* region scanned, it alone never ends the process, and every other tile of
\* the corpus is still evaluated for the region.
C18_LoggedPerRegion ==
  /\ [](AtJoin => EmptyLines = idx * Cardinality(Missing))
  /\ [](pc = "crashed" => \E e \in Corpus \ Missing : TileOf(e).Tiny.cm # "RGBA")
  /\ [](AtJoin =>
         \A e \in Corpus \ Missing : WithinThreshold(e, rects[idx]) => e \in Called(idx))
  /\ [][logged' # logged =>
          (rects' = rects /\ pc' = pc /\ Tiles' = Tiles
           /\ BagCardinality(goroutines') = BagCardinality(goroutines))]_vars

C18_Witness ==
  /\ AtJoin
  /\ idx = 2
  /\ EmptyLines = 2
  /\ Called(idx) # {}
  /\ rects[idx].MinTile # ZeroTile

\* the target rectangle of grid cell (x, y)
Target(x, y) ==
  LET T == config.TileSize IN Rect(x * T, y * T, (x + 1) * T, (y + 1) * T)

\* the planned regions whose target rectangle holds the canvas pixel pt
Covering(pt) == {i \in DOMAIN rects : pt \in Points(Target(rects[i].X, rects[i].Y))}

\* C19 as claimed: for canvas width W, height H and tile size T, Build plans
\* exactly (floor(W/T)+1) x (floor(H/T)+1) regions, one per grid cell.
C19_PlansAllCells ==
  pc # "start" =>
    LET W == Dx(SeedImage.r)
        H == Dy(SeedImage.r)
        T == config.TileSize
    IN /\ Len(rects) = (W \div T + 1) * (H \div T + 1)
       /\ \A x \in 0..(W \div T), y \in 0..(H \div T) :
            \E i \in DOMAIN rects : rects[i].X = x /\ rects[i].Y = y

\* C19 amended: Build visits the (floor(W/T)+1) x (floor(H/T)+1) grid cells
\* and plans one region for each cell whose TxT rectangle at (x*T, y*T)
\* overlaps the canvas, and none for the others: ceil(W/T) x ceil(H/T)
\* regions, whose rectangles together cover every canvas pixel exactly once.
C19_PlansOverlappingCells ==
  pc # "start" =>
    LET W == Dx(SeedImage.r)
        H == Dy(SeedImage.r)
        T == config.TileSize
    IN /\ Len(rects) = ((W + T - 1) \div T) * ((H + T - 1) \div T)
       /\ \A x \in 0..(W \div T), y \in 0..(H \div T) :
            Cardinality({i \in DOMAIN rects : rects[i].X = x /\ rects[i].Y = y})
              = IF x * T < W /\ y * T < H THEN 1 ELSE 0
       /\ \A i \in DOMAIN rects : rects[i].X \in 0..(W \div T) /\ rects[i].Y \in 0..(H \div T)
       /\ \A pt \in Points(SeedImage.r) : Cardinality(Covering(pt)) = 1

C19_Witness ==
  /\ pc = "loop"
  /\ Dx(SeedImage.r) % config.TileSize = 0
  /\ Len(rects) = 1
  /\ rects[1].X = 0 /\ rects[1].Y = 0

\* C23: Build returns nil only when the output was written, and a non-nil
\* error when the write failed; the output is written by nothing but the
\* final save.
C23_SaveFailureSurfaced ==
  /\ pc = "done" => (ret \in {"nil", "err"} /\ (ret = "nil" <=> written))
  /\ pc # "done" => (ret = "running" /\ ~written)

C23_Witness ==
  /\ pc = "done"
  /\ ~written
  /\ ret = "err"
  /\ Len(outcomes) = Len(rects)
  /\ SomeOutcome("drawn")

\* the distances computed so far for region r
Computed(r) == {DistOf(d.elem, rects[r]) : d \in {c \in diffs : c.region = r /\ ~c.err}}

\* d is the smaller of the sentinel and the distances in S
IsMinOf(d, S) ==
  /\ d \in S \cup {InitialMinDist}
  /\ \A c \in S \cup {InitialMinDist} : Leq(d, c)

\* C25: under every interleaving of the workers of a region, the best
\* distance never increases, the best tile changes only together with a
\* strictly smaller distance, and after the join the best distance is
\* min(1.0, smallest distance computed for the region).
C25_BestOnlyDecreases ==
  /\ [][rects' # rects =>
          \A i \in DOMAIN rects :
            i \in DOMAIN rects' =>
              /\ Leq(rects'[i].MinDist, rects[i].MinDist)
              /\ rects'[i].MinTile # rects[i].MinTile =>
                   Less(rects'[i].MinDist, rects[i].MinDist)
              /\ rects'[i].MinDist # rects[i].MinDist =>
                   i = idx /\ pc \in {"produce", "wait"}]_vars
  /\ [](AtJoin => IsMinOf(rects[idx].MinDist, Computed(idx)))

C25_Witness ==
  /\ AtJoin
  /\ config.Workers = MaxWorkers
  /\ Cardinality(Called(idx)) = 2
  /\ \A e \in Called(idx) : DistOf(e, rects[idx]) = rects[idx].MinDist
  /\ rects[idx].MinTile.Filename # ""

\* the best-match fields of td are those loadRect gave them
NoWinnerYet(td) ==
  /\ td.MinDist = InitialMinDist
  /\ td.MinTile = ZeroTile
  /\ td.MinElem = ZeroElem

\* the best-match fields of td all describe the loaded tile e
BestIs(td, e) ==
  /\ td.MinTile = TileOf(e)
  /\ td.MinElem.Value = TileOf(e)
  /\ td.MinDist = DistOf(e, td)

\* C26: whenever the mutex of a region is not held, its three best-match
\* fields are consistent: all at their initial values, or the best tile is
\* the value of the best element, a tile of the corpus as loaded, and the
\* best distance is that tile's distance to the region proxy; the fields
\* change only in a step taken with the mutex held.
C26_BestFieldsConsistent ==
  /\ [](\A i \in DOMAIN rects :
           i \notin tdMutex =>
             \/ NoWinnerYet(rects[i])
             \/ \E e \in DOMAIN Tiles.el \ {RootPtr} : BestIs(rects[i], e))
  /\ [][rects' # rects =>
          \A i \in DOMAIN rects :
            (/\ i \in DOMAIN rects'
             /\ \/ rects'[i].MinDist # rects[i].MinDist
                \/ rects'[i].MinTile # rects[i].MinTile
                \/ rects'[i].MinElem.Value # rects[i].MinElem.Value)
              => (i \in tdMutex /\ i \notin tdMutex')]_vars

C26_Witness ==
  /\ pc = "produce"
  /\ idx \notin tdMutex
  /\ rects[idx].MinTile.Filename # ""
  /\ \E w \in BagToSet(goroutines) : w.pc = "lockbest" /\ Less(w.dist, rects[idx].MinDist)

\* the <<region, element>> pairs handed over for region r, in order
RECURSIVE HandedTo(_, _)
HandedTo(r, h) ==
  IF h = <<>> THEN <<>>
  ELSE (IF Head(h)[1] = r THEN <<Head(h)[2]>> ELSE <<>>) \o HandedTo(r, Tail(h))

IsPrefix(a, b) == Len(a) <= Len(b) /\ a = SubSeq(b, 1, Len(a))

\* the workers that hold a tile they received
Busy == {w \in BagToSet(goroutines) : w.pc # "recv"}

\* C27: in each region's search the producer hands over the tiles of the
\* corpus in corpus order, each once; a handed-over tile is held by exactly
\* one worker until it is evaluated, and counted once when it was compared;
\* the channel is closed only after the last tile was handed over.
C27_EachTileOnce ==
  /\ pc \in {"produce", "wait", "assemble"} =>
       LET sent == HandedTo(idx, handed)
           all == Traversal(Tiles)
       IN /\ IsPrefix(sent, all)
          /\ idx \in closed => sent = all
          /\ cur = NilPtr => sent = all
          /\ cur # NilPtr => cur = all[Len(sent) + 1]
  /\ \A w \in Busy :
       /\ CopiesIn(w, goroutines) = 1
       /\ \E k \in DOMAIN handed : handed[k] = <<w.region, w.elem>>
       /\ \A v \in Busy : v.elem = w.elem => v = w
  /\ (goroutines = EmptyBag /\ pc # "crashed") =>
       Comparisons = Cardinality({d \in diffs : ~d.err})
  /\ \A d \in diffs : \E k \in DOMAIN handed : handed[k] = <<d.region, d.elem>>

C27_Witness ==
  /\ pc = "wait"
  /\ idx = 2
  /\ Len(HandedTo(idx, handed)) = MaxTiles
  /\ Cardinality(Busy) = MaxWorkers
  /\ idx \in closed

\* the sequence s without its entries equal to x
Without(s, x) == SelectSeq(s, LAMBDA y : y # x)

\* the corpus element that td's best match was copied from
WinnerElem(td) == CHOOSE e \in DOMAIN Tiles.el : e # RootPtr /\ TileOf(e) = td.MinTile

\* the tiles removed from the corpus so far
Gone == (DOMAIN Tiles.el \ {RootPtr}) \ Corpus

LoadedCorpus == ListOf([i \in 1..LoadedTiles |-> TileOf(i)])

\* C29: a region's search never modifies the corpus or a tile record: the
\* corpus changes only in Build's removal under Unique, tile records never
\* change, and with Unique disabled the corpus stays exactly as loaded.
C29_SearchReadsOnly ==
  /\ [][Tiles' # Tiles =>
          /\ pc = "assemble" /\ config.Unique /\ goroutines = EmptyBag
          /\ DOMAIN Tiles'.el = DOMAIN Tiles.el
          /\ \A e \in DOMAIN Tiles.el : Tiles'.el[e].Value = Tiles.el[e].Value]_vars
  /\ [](~config.Unique => Tiles = LoadedCorpus)

C29_Witness ==
  /\ ~config.Unique
  /\ pc = "done"
  /\ Cardinality(DrawnAt) = 2
  /\ Comparisons > 2
  /\ LoadedTiles = MaxTiles

\* the grid cells of the regions in rs, as a bag
Cells(rs) ==
  LET S == {<<rs[i].X, rs[i].Y>> : i \in DOMAIN rs}
  IN [c \in S |-> Cardinality({i \in DOMAIN rs : <<rs[i].X, rs[i].Y>> = c})]

\* C30: the shuffle only reorders the plan: whatever the order, the regions
\* Build starts its loop with are those of any other planning of the same
\* canvas and tile size, as a multiset of grid cells, and no cell is planned
\* twice; the plan does not change afterwards; the loop processes the
\* regions in the shuffled order, each once, and has processed all of them
\* when it ends.
C30_ShuffleReorders ==
  /\ [][(pc = "start" /\ pc' = "loop") =>
          /\ \A px \in [1..Visits -> Proxies] : Cells(rects') = Cells(Planned(px, 1))
          /\ \A c \in DOMAIN Cells(rects') : Cells(rects')[c] = 1]_vars
  /\ [][pc # "start" =>
          /\ Len(rects') = Len(rects)
          /\ \A i \in DOMAIN rects : rects'[i].X = rects[i].X /\ rects'[i].Y = rects[i].Y]_vars
  /\ [](/\ Len(outcomes) <= Len(rects)
        /\ \A i \in DOMAIN outcomes :
             /\ outcomes[i].region = i
             /\ outcomes[i].X = rects[i].X /\ outcomes[i].Y = rects[i].Y
        /\ pc \in {"save", "done"} => Len(outcomes) = Len(rects))

C30_Witness ==
  /\ pc = "done"
  /\ Len(outcomes) = 2
  /\ outcomes[1].X > outcomes[2].X

\* C21: in one Build no canvas pixel is written by the composites of two
\* different regions, whatever the size of the resolved tile images.
C21_WritesDisjoint ==
  \A i, j \in DOMAIN outcomes :
    i # j => outcomes[i].wrote \cap outcomes[j].wrote = {}

\* C22: a configuration with a zero or negative tile size is rejected before
\* any work starts: no tile is loaded, no region is planned or searched and
\* no output is written.
C22_InvalidSizeRejected ==
  config.TileSize <= 0 =>
    /\ LoadedTiles = 0
    /\ rects = <<>>
    /\ handed = <<>>
    /\ ~written

\* the regions of the plan rs whose target rectangle holds the pixel pt
CoveringIn(rs, pt) == {i \in DOMAIN rs : pt \in Points(Target(rs[i].X, rs[i].Y))}

\* C31: the target rectangles of the planned regions (x*T, y*T)-((x+1)*T,
\* (y+1)*T) are pairwise non-overlapping and together cover the canvas: every
\* canvas pixel lies in exactly one of them, and a rectangle that extends
\* past the right or the lower canvas edge belongs to the last planned row
\* or column.
C31_PlanPartitions ==
  [][rects' # rects =>
       LET W == Dx(SeedImage.r)
           H == Dy(SeedImage.r)
           R(i) == Target(rects'[i].X, rects'[i].Y)
       IN /\ \A i, j \in DOMAIN rects' :
               i # j => Points(R(i)) \cap Points(R(j)) = {}
          /\ \A pt \in Points(SeedImage.r) : Cardinality(CoveringIn(rects', pt)) = 1
          /\ \A i \in DOMAIN rects' :
               /\ R(i).minx >= 0 /\ R(i).miny >= 0
               /\ R(i).maxx > W => \A j \in DOMAIN rects' : rects'[j].X <= rects'[i].X
               /\ R(i).maxy > H => \A j \in DOMAIN rects' : rects'[j].Y <= rects'[i].Y]_vars

C31_Witness ==
  /\ pc = "loop"
  /\ idx = 0
  /\ Len(rects) = 2
  /\ \E i \in DOMAIN rects :
       /\ Target(rects[i].X, rects[i].Y).maxx > Dx(SeedImage.r)
       /\ rects[i].X > 0

C33_ProxyComputedOnce ==
  /\ [][(rects' # rects /\ rects = <<>>) =>
          (pc = "start" /\ SeedImage = MasterImage /\ outcomes = <<>>)]_vars
  /\ [][(rects' # rects /\ rects # <<>>) =>
          /\ Len(rects') = Len(rects)
          /\ \A i \in DOMAIN rects :
               /\ rects'[i].CompareImage = rects[i].CompareImage
               /\ rects'[i].Average = rects[i].Average
               /\ ProxyOf(rects'[i]) = ProxyOf(rects[i])]_vars
  /\ [][SeedImage' # SeedImage => (rects # <<>> /\ pc = "assemble")]_vars

C33_Witness ==
  /\ pc = "produce"
  /\ idx = 2
  /\ DrawnAt = {1}
  /\ SeedImage # MasterImage
  /\ rects[idx].MinTile.Filename # ""

\* the (region, tile) pairs for which Difference returned a distance
Measured == {d \in diffs : ~d.err}

\* the workers that hold a distance they have not counted yet
Uncounted ==
  LET S == {w \in BagToSet(goroutines) : w.pc \in {"lockstats", "count"}}
  IN BagCardinality([w \in S |-> CopiesIn(w, goroutines)])

\* C34: the comparison counter is exact under every interleaving of the
\* workers: at the end of Build it equals the number of (region, tile) pairs
\* for which a distance was computed, and while Build runs it lags behind
\* that number by exactly the workers that are about to count; a tile that
\* was skipped or whose comparison failed is not counted.
C34_CounterExact ==
  /\ pc # "crashed" => Comparisons + Uncounted = Cardinality(Measured)
  /\ pc \in {"save", "done"} => Comparisons = Cardinality(Measured)
  /\ Cardinality(Measured) <= Len(handed)

C34_Witness ==
  /\ pc = "done"
  /\ config.Workers = MaxWorkers
  /\ Comparisons >= 2
  /\ Len(handed) > Comparisons
  /\ \E d \in diffs : d.err

(* ---------------------- claims about the scenario ---------------------- *)
\* the second tile pushed into the corpus
Second == RootPtr + 2

\* the tiles that fit into the canvas of the scenario: four
ScenarioRegions ==
  (ScenarioCanvas.W \div config.TileSize) * (ScenarioCanvas.H \div config.TileSize)

\* Unique is off and the thumbnail of tile #2 is pixel-identical to the proxy
\* of every region
Scenario1 ==
  /\ pc # "start"
  /\ ~config.Unique
  /\ \A i \in DOMAIN rects : ProxyOf(rects[i]) = TileOf(Second).Tiny

Returned == call.fn = "Difference" /\ call.done

\* the call compared two grids of equal shape and colour model
Comparable == Returned /\ ~Mismatched(call.img1, call.img2)

NonEmpty(img) == Dx(img.r) * Dy(img.r) > 0

\* a == b on float64 (false when either side is NaN)
FloatEq(a, b) == a.den # 0 /\ b.den # 0 /\ a = b

\* the offsets the two loops of Difference run over
Offsets(img) == {<<x, y>> : x \in 0..(Dx(img.r) - 1), y \in 0..(Dy(img.r) - 1)}

\* the stored pixel of img at offset o from its own origin
Stored(img, o) == img.at[<<o[1] + img.r.minx, o[2] + img.r.miny>>]

\* the red, green and blue samples Difference reads at offset o
Samples(img, o) ==
  LET c == At16(img, o[1] + img.r.minx, o[2] + img.r.miny) IN <<c[1], c[2], c[3]>>

\* img moved to the origin
AtOrigin(img) ==
  LET b == Rect(0, 0, Dx(img.r), Dy(img.r))
  IN [cm |-> img.cm, r |-> b,
      at |-> [pt \in Points(b) |-> img.at[<<pt[1] + img.r.minx, pt[2] + img.r.miny>>]]]

C13_InUnitInterval ==
  Comparable =>
    LET sum == SumPixels(call.img1, call.img2, Offsets(call.img1))
        n == Dx(call.img1.r) * Dy(call.img1.r)
    IN /\ ~call.ret.err
       /\ 0 <= sum /\ sum <= n * MaxChannel * 3
       /\ call.ret.dist.den # 0
       /\ 0 <= call.ret.dist.num /\ call.ret.dist.num <= call.ret.dist.den

\* C14 as claimed: Difference(A, B) = 0 if and only if A and B are
\* pixel-identical: equal-shape grids that differ in any stored pixel
\* component have a strictly positive distance.
C14_ZeroIffIdentical ==
  Comparable =>
    (FloatEq(call.ret.dist, Frac(0, 1)) <=>
       \A o \in Offsets(call.img1) : Stored(call.img1, o) = Stored(call.img2, o))

\* C14 amended: for grids of equal shape and colour model with at least one
\* pixel, Difference(A, B) = 0 if and only if the alpha-premultiplied red,
\* green and blue samples of A and B are equal at every position; otherwise
\* the distance is strictly positive. Alpha itself is not compared.
C14_ZeroIffSameColour ==
  (Comparable /\ NonEmpty(call.img1)) =>
    /\ FloatEq(call.ret.dist, Frac(0, 1)) <=>
          \A o \in Offsets(call.img1) : Samples(call.img1, o) = Samples(call.img2, o)
    /\ ~FloatEq(call.ret.dist, Frac(0, 1)) => Less(Frac(0, 1), call.ret.dist)

C14_Witness ==
  /\ Comparable
  /\ Dx(call.img1.r) = MaxSide
  /\ call.ret.dist = Frac(0, 1)
  /\ Stored(call.img1, <<0, 0>>) = Black /\ Stored(call.img2, <<0, 0>>) = Shade
  /\ Stored(call.img1, <<1, 0>>) = White /\ Stored(call.img2, <<1, 0>>) = White

\* C15: Difference returns an error, and the zero distance with it, exactly
\* when the inputs differ in colour model or in width or height; inputs of
\* equal size at different origins are compared position by position
\* relative to their own origins; the inputs are not modified.
C15_ErrorIffMismatched ==
  /\ [](Returned =>
         /\ call.ret.err <=> Mismatched(call.img1, call.img2)
         /\ call.ret.err => call.ret.dist = Frac(0, 1)
         /\ ~call.ret.err =>
              call.ret = Difference(AtOrigin(call.img1), AtOrigin(call.img2)))
  /\ [][call.fn = "Difference" =>
          (call'.img1 = call.img1 /\ call'.img2 = call.img2)]_vars

C15_Witness ==
  /\ Returned
  /\ ~call.ret.err
  /\ call.img1.r.minx # call.img2.r.minx
  /\ Dx(call.img1.r) = MaxSide
  /\ Stored(call.img1, <<0, 0>>) # Stored(call.img1, <<1, 0>>)
  /\ Less(Frac(0, 1), call.ret.dist) /\ Less(call.ret.dist, Frac(1, 1))

\* C20 as claimed: the destination rectangle of the draw is the region's
\* target rectangle (x*T, y*T, (x+1)*T, (y+1)*T), for every tile size T and
\* every comparison size.
C20_DestIsTarget ==
  (call.fn = "loadRect" /\ call.drawn) =>
    LET T == config.TileSize
    IN call.rect = Rect(call.x * T, call.y * T, (call.x + 1) * T, (call.y + 1) * T)


\* C24: a tile that fails to load, decode or convert while the corpus is
\* populated, a conversion that panics and is recovered in buildTile
\* included, is excluded from the corpus: the corpus only ever contains
\* tiles with an identity and a thumbnail, one for each key that loaded.
C24_OnlyUsableTilesLoaded ==
  (call.fn = "loadTilesFromRedis" /\ call.done) =>
    /\ \A e \in Corpus : TileOf(e).Filename # "" /\ TileOf(e).Tiny # NilImage
    /\ Tiles.len = Cardinality({i \in DOMAIN call.keys : call.keys[i] = "ok"})


\* C36: New never returns a nil Gosaic together with a nil error, so a
\* caller that checks the error never calls Build on nil.
C36_NilOnlyWithError ==
  (call.fn = "New" /\ call.done /\ ~call.ret.panic) =>
     /\ ~(call.ret.g = "nil" /\ call.ret.err = "nil")
     /\ call.main # "Build on nil"

(* --------------------- claims about loadTilesFromDisk ------------------- *)
\* the paths that loaded
Loadable == {i \in DOMAIN call.tilePaths : call.tilePaths[i] = "ok"}

\* C35: when loadTilesFromDisk returns, and from then on, the corpus holds
\* exactly one tile for every globbed path that loaded, and nothing else,
\* under every scheduling of the loaders and the collector.
C35_DiskCorpusComplete ==
  call.pc = "returned" =>
    /\ Tiles.len = Cardinality(Loadable)
    /\ \A i \in Loadable : Cardinality({e \in Corpus : TileOf(e) = DiskTile(i)}) = 1
    /\ \A e \in Corpus : \E i \in Loadable : TileOf(e) = DiskTile(i)
    /\ call.collector.pc # "push"
    /\ \A i \in Loaders : call.loaders[i].pc \in {"new", "recv", "done"}

C35_Witness ==
  /\ call.pc = "returned"
  /\ Tiles.len = MaxTiles
  /\ \E i \in Loaders : call.loaders[i].pc = "new"
  /\ \E i \in Loaders : call.loaders[i].pc = "done"


(* --------------------- claims about cmd/redisimport --------------------- *)
\* C37: when Importer.Run has returned nil, the Import call of every file
\* matched by the glob has completed.
C37_RunReturnsAfterImports ==
  call.pc \in {"returned", "exited"} => call.finished = DOMAIN call.images


(* --------------------- claims about the inline workers ------------------ *)
\* C38: after tileWG.Wait, minDist is the smallest distance the workers
\* computed for the region that is below 1.0, and minTile and minTileElem are
\* a tile at that distance.
C38_InlineBestIsMinimum ==
  call.pc = "joined" =>
    /\ \A d \in call.computed : ~Less(d.dist, call.minDist)
    /\ call.minTile # ZeroTile =>
         \E d \in call.computed :
            /\ d.elem = call.minTileElem
            /\ d.dist = call.minDist
            /\ Tiles.el[d.elem].Value = call.minTile


(* --------------------- claims about part_000 ---------------------------- *)
\* C39: in part_000 the mutex a worker unlocks is the one it locked: no
\* Unlock finds its mutex unlocked, and a worker that is about to unlock holds
\* no other mutex.
C39_LockUnlockPaired ==
  /\ ~call.badUnlock
  /\ \A w \in DOMAIN call.workers :
       call.workers[w].pc = "unlock" => (call.tileMutex /\ call.gMutex # w)

====
